---- MODULE Spec2Model ----
(***************************************************************************)
(* Fleet route optimizer: the local-search suite (OptimizationTechniques), *)
(* the A* pathfinder (AStarPathfinder), the VRP constructors               *)
(* (VRPSolver.solveClarkeWright, VRPSolver.solveGenetic), the engine's     *)
(* entry point (AdvancedRouteOptimizer.optimizeRoutes), the fleet manager  *)
(* (FleetManager) and the connection handling of RealTimeTracker.          *)
(*                                                                         *)
(* Numbers.  Positions are [latitude, longitude] pairs in whole degrees on *)
(* the grid 0..2 x 0..2; the pathfinder's positions are in tenths of a     *)
(* micro-degree, so that a position can differ from the one its node id    *)
(* stands for.  Distances are the haversine distances of the source        *)
(* (R = 6371 km) in metres, rounded up, so that they are integers and keep *)
(* the triangle inequality of the great-circle distance.  Math.random() is *)
(* a nondeterministic choice over the values the expression it feeds can   *)
(* take.  Array indices are 0-based as in the source.                      *)
(***************************************************************************)
EXTENDS Integers, Sequences, FiniteSets, TLC

VARIABLES
  \* ---- OptimizationTechniques (one call of one improvement operator) ----
  op,               \* which operator is being run
  route,            \* the argument `route` (never written by the operators)
  bestRoute,        \* local `bestRoute`
  bestDistance,     \* local `bestDistance`
  improved,         \* local `improved` of the while (improved) loops
  currentRoute,     \* optimizeSimulatedAnnealing: `currentRoute`
  currentDistance,  \* optimizeSimulatedAnnealing: `currentDistance`
  temperature,      \* optimizeSimulatedAnnealing: `temperature`
  initialTemp,      \* optimizeSimulatedAnnealing: parameter `initialTemp`
  startEdge,        \* optimizeLinKernighan: loop variable `startEdge`
  maxDepth,         \* optimizeLinKernighan: parameter `maxDepth`
  lsPc,             \* "loop" while the operator runs, "done" once it returned
  lsResult,         \* the returned sequence
  \* ---- AStarPathfinder (one call of findPath) ----
  roadNetwork,      \* node id -> the list getNeighbors returns for it
  asStart,          \* argument `start`
  asGoal,           \* argument `goal`
  nodes,            \* this.nodes: node id -> AStarNode
  openSet,          \* this.openSet, in array order (node ids)
  closedSet,        \* this.closedSet
  asPc,             \* "loop", "returned" or "error" (the Error was thrown)
  asPath,           \* the returned RouteSegment list
  asReused,         \* history: the instance served a call before this one
  \* ---- VRPSolver (one call of solveClarkeWright or solveGenetic) ----
  alg,              \* "cw" or "ga": which constructor is being run
  instance,         \* argument `instance`: depot, vehicles, deliveries
  options,          \* solveGenetic: populationSize, generations, eliteSize
  savings,          \* solveClarkeWright: `savings` after the sort
  savingIdx,        \* solveClarkeWright: 0-based position of for (saving of savings)
  routes,           \* solveClarkeWright: `routes`
  population,       \* solveGenetic: `population`
  bestSolution,     \* solveGenetic: `bestSolution`, <<>> while it is null
  stagnationCounter,\* solveGenetic: `stagnationCounter`
  generation,       \* solveGenetic: loop variable `generation`
  minFitness,       \* history: the least value the `fitness` arrays have held
  vrpPc,            \* "merge", "ga", "break", "returned" or "error"
  vrpResult,        \* the returned VRPSolution
  \* ---- AdvancedRouteOptimizer (one call of optimizeRoutes) ----
  optVehicles,      \* the caller's array passed as `vehicles`
  optDeliveries,    \* the caller's array passed as `deliveries`
  validatedData,    \* local `validatedData`, <<>> before it is assigned
  solverCalls,      \* history: the VRPSolver methods invoked so far, in order
  optPc,            \* "call", "validated", "optimized", "returned" or "error"
  optResult,        \* the OptimizationResult held or returned, <<>> for none
  optError,         \* message of the Error the call was rejected with
  \* ---- VRPSolver.chromosomeToSolution (one call) ----
  decInstance,      \* argument `instance`
  decChromosome,    \* argument `chromosome`
  decPc,            \* "call", then "returned"
  decSolution,      \* the returned VRPSolution, <<>> before
  \* ---- FleetManager ----
  fmVehicles,       \* this.vehicles: the Vehicle entries in insertion order
  fmRoutes,         \* this.activeRoutes: the routes in insertion order
  fmCall,           \* history: the last call made, <<>> before the first
  \* ---- RealTimeTracker ----
  rtSockets,        \* readyState of every WebSocket created so far, in order
  websocket,        \* this.websocket: 1-based index in rtSockets, 0 for null
  reconnectAttempts,\* this.reconnectAttempts
  rtTimers,         \* number of reconnect timers set and not yet fired
  rtHeartbeats,     \* ids of the interval timers that are running
  heartbeatInterval,\* this.heartbeatInterval, 0 for undefined
  rtDisconnected    \* history: disconnect() was called and the client has
                    \* not called connect() since

lsVars == <<op, route, bestRoute, bestDistance, improved, currentRoute,
            currentDistance, temperature, initialTemp, startEdge, maxDepth,
            lsPc, lsResult>>

asVars == <<roadNetwork, asStart, asGoal, nodes, openSet, closedSet, asPc,
            asPath, asReused>>

vrpVars == <<alg, instance, options, savings, savingIdx, routes, population,
             bestSolution, stagnationCounter, generation, minFitness, vrpPc,
             vrpResult>>

optVars == <<optVehicles, optDeliveries, validatedData, solverCalls, optPc,
             optResult, optError>>

decVars == <<decInstance, decChromosome, decPc, decSolution>>

fmVars == <<fmVehicles, fmRoutes, fmCall>>

rtVars == <<rtSockets, websocket, reconnectAttempts, rtTimers, rtHeartbeats,
            heartbeatInterval, rtDisconnected>>

\* the variables of the units modelled after the engine's entry point
unitVars == <<decVars, fmVars, rtVars>>

vars == <<lsVars, asVars, vrpVars, optVars, unitVars>>

-----------------------------------------------------------------------------
(* Bounds of the model *)

\* longest stop sequence handed to 2-opt, 3-opt and Or-opt
MaxLen == 5
\* longest stop sequence handed to Lin-Kernighan and simulated annealing,
\* whose moves are drawn at random
MaxDrawLen == 4
\* initialTemp ranges over 2^0 .. 2^MaxTempExp
MaxTempExp == 2
\* largest maxDepth handed to optimizeLinKernighan
MaxDepthBound == 2
\* an edge weighs the great-circle distance of its endpoints plus
\* 0 .. MaxDetour times 100 km
MaxDetour == 1

-----------------------------------------------------------------------------
(* JavaScript array helpers (0-based) *)

Min2(a, b) == IF a < b THEN a ELSE b
Max2(a, b) == IF a > b THEN a ELSE b

\* Array.prototype.slice(from, to) for 0 <= from
SliceJS(s, from, to) ==
  LET lo == Min2(from, Len(s))
      hi == Min2(Max2(to, lo), Len(s))
  IN  [x \in 1..(hi - lo) |-> s[lo + x]]

\* Array.prototype.reverse()
ReverseJS(s) == [x \in 1..Len(s) |-> s[Len(s) + 1 - x]]

\* Array.prototype.splice(start, deleteCount, ...items) for 0 <= start:
\* the array after the call
SpliceJS(s, start, deleteCount, items) ==
  LET st  == Min2(start, Len(s))
      del == Min2(Max2(deleteCount, 0), Len(s) - st)
  IN  SliceJS(s, 0, st) \o items \o SliceJS(s, st + del, Len(s))

\* the elements of an array
Range(s) == { s[x] : x \in DOMAIN s }

\* the values Math.floor(Math.random() * x) can take, Math.random() in [0, 1)
RandomFloor(x) == IF x > 0 THEN 0..(x - 1) ELSE x..0

-----------------------------------------------------------------------------
(* Geometry *)

\* haversine distance in metres (rounded up) between the grid points
\* (lat, lon), lat, lon in 0..2; row and column lat * 3 + lon + 1
DistanceTable ==
  << <<     0, 111195, 222390, 111195, 157250, 248630, 222390, 248630, 314475>>,
     <<111195,      0, 111195, 157250, 111195, 157250, 248630, 222390, 248630>>,
     <<222390, 111195,      0, 248630, 157250, 111195, 314475, 248630, 222390>>,
     <<111195, 157250, 248630,      0, 111178, 222356, 111195, 157226, 248569>>,
     <<157250, 111195, 157250, 111178,      0, 111178, 157226, 111195, 157226>>,
     <<248630, 157250, 111195, 222356, 111178,      0, 248569, 157226, 111195>>,
     <<222390, 248630, 314475, 111195, 157226, 248569,      0, 111128, 222255>>,
     <<248630, 222390, 248630, 157226, 111195, 157226, 111128,      0, 111128>>,
     <<314475, 248630, 222390, 248569, 157226, 111195, 222255, 111128,      0>> >>

calculateDistance(pos1, pos2) ==
  DistanceTable[pos1[1] * 3 + pos1[2] + 1][pos2[1] * 3 + pos2[2] + 1]

RECURSIVE calculateTotalDistance(_)
calculateTotalDistance(r) ==
  IF Len(r) <= 1 THEN 0
  ELSE calculateDistance(r[1], r[2]) + calculateTotalDistance(Tail(r))

-----------------------------------------------------------------------------
(* OptimizationTechniques: moves *)

twoOptSwap(r, i, j) ==
  IF Len(r) = 0 THEN r
  ELSE LET segment == ReverseJS(SliceJS(r, i, j + 1))
       IN  SpliceJS(r, i, j - i + 1, segment)

\* the seven candidates in the order they are pushed.  seg2.reverse() and
\* seg3.reverse() reverse the local arrays in place, so every later element
\* of the list sees the segments as the earlier reversals left them.
generateThreeOptMoves(r, i, j, k) ==
  LET seg1 == SliceJS(r, 0, i)
      seg2 == SliceJS(r, i, j)
      seg3 == SliceJS(r, j, k)
      seg4 == SliceJS(r, k, Len(r))
      rev2 == ReverseJS(seg2)
      rev3 == ReverseJS(seg3)
  IN  << seg1 \o rev2 \o seg3 \o seg4,    \* seg2 reversed (seg2 is now rev2)
         seg1 \o rev2 \o rev3 \o seg4,    \* seg2 as left, seg3 reversed
         seg1 \o seg2 \o seg3 \o seg4,    \* both reversed back
         seg1 \o seg3 \o seg2 \o seg4,    \* swap
         seg1 \o rev3 \o rev2 \o seg4,    \* both reversed again
         seg1 \o rev3 \o seg2 \o seg4,    \* seg3 as left, seg2 reversed back
         seg1 \o seg3 \o seg2 \o seg4 >>  \* seg3 reversed back, seg2 as left

\* orOptMove inserting at insertPos without the adjustment and re-reading the
\* moved stops from the shortened array
orOptMove_stale(r, start, length, insertPos) ==
  LET newRoute == SpliceJS(r, start, length, <<>>)
      sequence == SliceJS(newRoute, start, start + length)
  IN  SpliceJS(newRoute, insertPos, 0, sequence)

orOptMove(r, start, length, insertPos) ==
  LET sequence          == SliceJS(r, start, start + length)
      newRoute          == SpliceJS(r, start, length, <<>>)
      adjustedInsertPos == IF insertPos > start THEN insertPos - length
                           ELSE insertPos
  IN  SpliceJS(newRoute, adjustedInsertPos, 0, sequence)

\* every sequence generateNeighbor can return: i and j are the two draws
generateNeighbor(r) ==
  UNION { { twoOptSwap(r, i, j) :
              j \in { y + i + 1 : y \in RandomFloor(Len(r) - i - 1) } } :
          i \in { x + 1 : x \in RandomFloor(Len(r) - 2) } }

\* every sequence generateComplexNeighbor can return
RECURSIVE generateComplexNeighbor(_, _)
generateComplexNeighbor(r, complexity) ==
  IF complexity <= 0 THEN {r}
  ELSE UNION { generateNeighbor(x) :
               x \in generateComplexNeighbor(r, complexity - 1) }

-----------------------------------------------------------------------------
(* OptimizationTechniques: one pass of each while (improved) loop *)

\* optimize2Opt's scan with the comparison turned round (newDistance > dist)
RECURSIVE TwoOptScan_acceptWorse(_, _, _, _, _, _)
TwoOptScan_acceptWorse(best, dist, imp, i, j, n) ==
  IF i >= n - 2 THEN [route |-> best, distance |-> dist, improved |-> imp]
  ELSE IF j >= n - 1 THEN TwoOptScan_acceptWorse(best, dist, imp, i + 1, i + 2, n)
  ELSE LET newRoute    == twoOptSwap(best, i, j)
           newDistance == calculateTotalDistance(newRoute)
       IN  IF newDistance > dist
           THEN TwoOptScan_acceptWorse(newRoute, newDistance, TRUE, i, j + 1, n)
           ELSE TwoOptScan_acceptWorse(best, dist, imp, i, j + 1, n)

\* optimize2Opt's scan without `improved = true`: a single pass
RECURSIVE TwoOptScan_singlePass(_, _, _, _, _, _)
TwoOptScan_singlePass(best, dist, imp, i, j, n) ==
  IF i >= n - 2 THEN [route |-> best, distance |-> dist, improved |-> FALSE]
  ELSE IF j >= n - 1 THEN TwoOptScan_singlePass(best, dist, imp, i + 1, i + 2, n)
  ELSE LET newRoute    == twoOptSwap(best, i, j)
           newDistance == calculateTotalDistance(newRoute)
       IN  IF newDistance < dist
           THEN TwoOptScan_singlePass(newRoute, newDistance, TRUE, i, j + 1, n)
           ELSE TwoOptScan_singlePass(best, dist, imp, i, j + 1, n)

\* optimize2Opt's scan that also takes a route of equal length
\* (newDistance <= dist)
RECURSIVE TwoOptScan_acceptEqual(_, _, _, _, _, _)
TwoOptScan_acceptEqual(best, dist, imp, i, j, n) ==
  IF i >= n - 2 THEN [route |-> best, distance |-> dist, improved |-> imp]
  ELSE IF j >= n - 1 THEN TwoOptScan_acceptEqual(best, dist, imp, i + 1, i + 2, n)
  ELSE LET newRoute    == twoOptSwap(best, i, j)
           newDistance == calculateTotalDistance(newRoute)
       IN  IF newDistance <= dist
           THEN TwoOptScan_acceptEqual(newRoute, newDistance, TRUE, i, j + 1, n)
           ELSE TwoOptScan_acceptEqual(best, dist, imp, i, j + 1, n)

\* the two nested for loops of optimize2Opt, from (i, j) on; n = route.length
RECURSIVE TwoOptScan(_, _, _, _, _, _)
TwoOptScan(best, dist, imp, i, j, n) ==
  IF i >= n - 2 THEN [route |-> best, distance |-> dist, improved |-> imp]
  ELSE IF j >= n - 1 THEN TwoOptScan(best, dist, imp, i + 1, i + 2, n)
  ELSE LET newRoute    == twoOptSwap(best, i, j)
           newDistance == calculateTotalDistance(newRoute)
       IN  IF newDistance < dist
           THEN TwoOptScan(newRoute, newDistance, TRUE, i, j + 1, n)
           ELSE TwoOptScan(best, dist, imp, i, j + 1, n)

\* index of the first move shorter than dist, 0 when there is none
FirstImproving(moves, dist) ==
  LET better == { m \in 1..Len(moves) : calculateTotalDistance(moves[m]) < dist }
  IN  IF better = {} THEN 0
      ELSE CHOOSE m \in better : \A m2 \in better : m <= m2

\* the three nested for loops of optimize3Opt, from (i, j, k) on: they stop at
\* the first improving move
RECURSIVE ThreeOptScan(_, _, _, _, _, _)
ThreeOptScan(best, dist, i, j, k, n) ==
  IF i >= n - 3 THEN [route |-> best, distance |-> dist, improved |-> FALSE]
  ELSE IF j >= n - 2 THEN ThreeOptScan(best, dist, i + 1, i + 2, i + 3, n)
  ELSE IF k >= n - 1 THEN ThreeOptScan(best, dist, i, j + 1, j + 2, n)
  ELSE LET moves == generateThreeOptMoves(best, i, j, k)
           m     == FirstImproving(moves, dist)
       IN  IF m # 0
           THEN [route |-> moves[m],
                 distance |-> calculateTotalDistance(moves[m]),
                 improved |-> TRUE]
           ELSE ThreeOptScan(best, dist, i, j, k + 1, n)

Abs(x) == IF x < 0 THEN -x ELSE x

\* the innermost for loop of optimizeOrOpt, from j on
RECURSIVE OrOptRow(_, _, _, _, _, _, _)
OrOptRow(best, dist, imp, seqLength, i, j, n) ==
  IF j >= n - seqLength THEN [route |-> best, distance |-> dist, improved |-> imp]
  ELSE IF Abs(i - j) >= seqLength
       THEN LET newRoute    == orOptMove(best, i, seqLength, j)
                newDistance == calculateTotalDistance(newRoute)
            IN  IF newDistance < dist
                THEN OrOptRow(newRoute, newDistance, TRUE, seqLength, i, j + 1, n)
                ELSE OrOptRow(best, dist, imp, seqLength, i, j + 1, n)
       ELSE OrOptRow(best, dist, imp, seqLength, i, j + 1, n)

\* the for loop over i of optimizeOrOpt, from (i, j) on; the j loop leaves
\* bestRoute as it was unless it found a shorter one
RECURSIVE OrOptRows(_, _, _, _, _, _, _)
OrOptRows(best, dist, imp, seqLength, i, j, n) ==
  IF i >= n - seqLength THEN [route |-> best, distance |-> dist, improved |-> imp]
  ELSE LET r == OrOptRow(best, dist, imp, seqLength, i, j, n)
       IN  IF r.distance < dist
           THEN OrOptRows(r.route, r.distance, TRUE, seqLength, i + 1, 1, n)
           ELSE OrOptRows(best, dist, imp, seqLength, i + 1, 1, n)

\* the three nested for loops of optimizeOrOpt, from (seqLength, i, j) on
RECURSIVE OrOptScan(_, _, _, _, _, _, _)
OrOptScan(best, dist, imp, seqLength, i, j, n) ==
  IF seqLength > 3 THEN [route |-> best, distance |-> dist, improved |-> imp]
  ELSE LET r == OrOptRows(best, dist, imp, seqLength, i, j, n)
       IN  IF r.distance < dist
           THEN OrOptScan(r.route, r.distance, TRUE, seqLength + 1, 1, 1, n)
           ELSE OrOptScan(best, dist, imp, seqLength + 1, 1, 1, n)

\* one step of the depth loop of linKernighanSearch from bestRoute b: the
\* routes it can hold afterwards
LKDepthStep(b, depth) ==
  LET N == generateComplexNeighbor(b, depth)
      d == calculateTotalDistance(b)
  IN  { x \in N : calculateTotalDistance(x) < d }
      \cup (IF \E x \in N : ~(calculateTotalDistance(x) < d) THEN {b} ELSE {})

RECURSIVE LKDepthLoop(_, _, _)
LKDepthLoop(S, depth, maxD) ==
  IF depth > maxD THEN S
  ELSE LKDepthLoop(UNION { LKDepthStep(b, depth) : b \in S }, depth + 1, maxD)

\* every route linKernighanSearch can return (its distance is recomputed
\* from the route; the startEdge argument is not read by the source)
linKernighanSearch(r, maxD) == LKDepthLoop({r}, 1, maxD)

-----------------------------------------------------------------------------
(* OptimizationTechniques: the calls *)

Operators == {"2opt", "3opt", "oropt", "lk", "sa"}

\* the stops a sequence is built from: the corners of the 2 x 2 degree square
StopPoints == { <<0, 0>>, <<2, 0>>, <<0, 2>>, <<2, 2>> }

\* the sequences of at most maxLen stops, starting at the corner <<0, 0>>
StopSequences(maxLen) ==
  { s \in UNION { [1..n -> StopPoints] : n \in 0..maxLen } :
      Len(s) > 0 => s[1] = <<0, 0>> }

\* round trips of seven stops: from the depot [0, 1] over the four corners
\* and the centre of the square, each once and in any order, back to the
\* depot
TourDepot == <<0, 1>>

TourStops == StopPoints \cup { <<1, 1>> }

RoundTrips ==
  { <<TourDepot>> \o p \o <<TourDepot>> :
      p \in { q \in [1..Cardinality(TourStops) -> TourStops] :
                \A a, b \in DOMAIN q : a # b => q[a] # q[b] } }

\* the sequences an operator is called with: the operators that scan every
\* move are also given the round trips
RoutesOf(operator) ==
  IF operator \in {"lk", "sa"} THEN StopSequences(MaxDrawLen)
  ELSE StopSequences(MaxLen) \cup RoundTrips

RECURSIVE Pow2(_)
Pow2(k) == IF k <= 0 THEN 1 ELSE 2 * Pow2(k - 1)

\* default of the parameter minTemp
minTemp == 1

\* no pathfinder is in use
IdleAStar ==
  /\ roadNetwork = <<>> /\ asStart = <<0, 0>> /\ asGoal = <<0, 0>>
  /\ nodes = <<>> /\ openSet = <<>> /\ closedSet = {}
  /\ asPc = "none" /\ asPath = <<>> /\ asReused = FALSE

\* no VRP constructor is being run
IdleVRP ==
  /\ alg = "none" /\ instance = <<>> /\ options = <<>>
  /\ savings = <<>> /\ savingIdx = 0 /\ routes = <<>>
  /\ population = <<>> /\ bestSolution = <<>> /\ stagnationCounter = 0
  /\ generation = 0 /\ minFitness = 1000000000 /\ vrpPc = "none" /\ vrpResult = <<>>

\* no optimizeRoutes call is being made
IdleOpt ==
  /\ optVehicles = <<>> /\ optDeliveries = <<>> /\ validatedData = <<>>
  /\ solverCalls = <<>> /\ optPc = "none" /\ optResult = <<>> /\ optError = ""

\* no chromosome is being decoded
IdleDec ==
  decInstance = <<>> /\ decChromosome = <<>> /\ decPc = "none" /\ decSolution = <<>>

\* no fleet manager is in use
IdleFleet == fmVehicles = <<>> /\ fmRoutes = <<>> /\ fmCall = <<>>

\* no tracker is in use
IdleTracker ==
  /\ rtSockets = <<>> /\ websocket = 0 /\ reconnectAttempts = 0 /\ rtTimers = 0
  /\ rtHeartbeats = {} /\ heartbeatInterval = 0 /\ rtDisconnected = FALSE

\* state at the top of the operator's loop, locals initialised from `route`
InitLS ==
  /\ IdleAStar
  /\ IdleVRP
  /\ IdleOpt
  /\ IdleDec /\ IdleFleet /\ IdleTracker
  /\ op \in Operators
  /\ route \in RoutesOf(op)
  /\ bestRoute = route
  /\ bestDistance = calculateTotalDistance(route)
  /\ improved = TRUE
  /\ currentRoute = route
  /\ currentDistance = calculateTotalDistance(route)
  /\ initialTemp \in IF op = "sa" THEN { Pow2(k) : k \in 0..MaxTempExp } ELSE {0}
  /\ temperature = initialTemp
  /\ startEdge = 0
  /\ maxDepth \in IF op = "lk" THEN 0..MaxDepthBound ELSE {0}
  /\ lsPc = "loop"
  /\ lsResult = <<>>

\* one iteration of while (improved) of optimize2Opt
Opt2Pass ==
  /\ lsPc = "loop" /\ op = "2opt" /\ improved
  /\ LET r == TwoOptScan(bestRoute, bestDistance, FALSE, 1, 2, Len(route))
     IN  /\ bestRoute' = r.route
         /\ bestDistance' = r.distance
         /\ improved' = r.improved
  /\ UNCHANGED <<op, route, initialTemp, currentRoute, currentDistance, temperature,
                 startEdge, maxDepth, lsPc, lsResult, asVars, vrpVars, optVars, unitVars>>

\* one iteration of while (improved) of optimize3Opt
Opt3Pass ==
  /\ lsPc = "loop" /\ op = "3opt" /\ improved
  /\ LET r == ThreeOptScan(bestRoute, bestDistance, 1, 2, 3, Len(route))
     IN  /\ bestRoute' = r.route
         /\ bestDistance' = r.distance
         /\ improved' = r.improved
  /\ UNCHANGED <<op, route, initialTemp, currentRoute, currentDistance, temperature,
                 startEdge, maxDepth, lsPc, lsResult, asVars, vrpVars, optVars, unitVars>>

\* one iteration of while (improved) of optimizeOrOpt
OrOptPass ==
  /\ lsPc = "loop" /\ op = "oropt" /\ improved
  /\ LET r == OrOptScan(bestRoute, bestDistance, FALSE, 1, 1, 1, Len(route))
     IN  /\ bestRoute' = r.route
         /\ bestDistance' = r.distance
         /\ improved' = r.improved
  /\ UNCHANGED <<op, route, initialTemp, currentRoute, currentDistance, temperature,
                 startEdge, maxDepth, lsPc, lsResult, asVars, vrpVars, optVars, unitVars>>

\* one iteration of the startEdge loop of optimizeLinKernighan
LKStep ==
  /\ lsPc = "loop" /\ op = "lk" /\ startEdge < Len(route) - 1
  /\ \E res \in linKernighanSearch(bestRoute, maxDepth) :
       LET resDistance == calculateTotalDistance(res)
       IN  IF resDistance < bestDistance
           THEN bestRoute' = res /\ bestDistance' = resDistance
           ELSE UNCHANGED <<bestRoute, bestDistance>>
  /\ startEdge' = startEdge + 1
  /\ UNCHANGED <<op, route, initialTemp, improved, currentRoute, currentDistance,
                 temperature, maxDepth, lsPc, lsResult, asVars, vrpVars, optVars, unitVars>>

\* the best solution overwritten on every accepted move
SAUpdateBest_always(cur, curDistance, best, bestDist) ==
  [route |-> cur, distance |-> curDistance]

\* lines 166-170: the best solution after currentRoute became cur
SAUpdateBest(cur, curDistance, best, bestDist) ==
  IF curDistance < bestDist
  THEN [route |-> cur, distance |-> curDistance]
  ELSE [route |-> best, distance |-> bestDist]

\* one iteration of while (temperature > minTemp); coolingRate is 0.5.
\* Math.random() < acceptanceProbability is certain when deltaE <= 0
\* (probability 1) and open otherwise.
SAStep ==
  /\ lsPc = "loop" /\ op = "sa" /\ temperature > minTemp
  /\ \E neighbor \in generateNeighbor(currentRoute), accept \in BOOLEAN :
       LET neighborDistance == calculateTotalDistance(neighbor)
           deltaE           == neighborDistance - currentDistance
           b == SAUpdateBest(neighbor, neighborDistance, bestRoute, bestDistance)
       IN  /\ deltaE <= 0 => accept
           /\ IF accept
              THEN /\ currentRoute' = neighbor
                   /\ currentDistance' = neighborDistance
                   /\ bestRoute' = b.route
                   /\ bestDistance' = b.distance
              ELSE UNCHANGED <<currentRoute, currentDistance, bestRoute, bestDistance>>
  /\ temperature' = temperature \div 2
  /\ UNCHANGED <<op, route, initialTemp, improved, startEdge, maxDepth, lsPc,
                 lsResult, asVars, vrpVars, optVars, unitVars>>

\* the loop condition fails: return bestRoute
LoopExit ==
  CASE op \in {"2opt", "3opt", "oropt"} -> ~improved
    [] op = "lk" -> ~(startEdge < Len(route) - 1)
    [] op = "sa" -> ~(temperature > minTemp)

LSReturn ==
  /\ lsPc = "loop" /\ LoopExit
  /\ lsPc' = "done"
  /\ lsResult' = bestRoute
  /\ UNCHANGED <<op, route, initialTemp, bestRoute, bestDistance, improved,
                 currentRoute, currentDistance, temperature, startEdge,
                 maxDepth, asVars, vrpVars, optVars, unitVars>>

NextLS == Opt2Pass \/ Opt3Pass \/ OrOptPass \/ LKStep \/ SAStep \/ LSReturn

SpecLS == InitLS /\ [][NextLS]_vars

-----------------------------------------------------------------------------
(* Properties of the local-search suite *)

\* the number of times stop p occurs in s
Count(s, p) == Cardinality({ x \in 1..Len(s) : s[x] = p })

SameMultiset(s, t) ==
  /\ Len(s) = Len(t)
  /\ \A p \in Range(s) \cup Range(t) : Count(s, p) = Count(t, p)

\* optimize2Opt as a function of its argument: the while (improved) loop
RECURSIVE Opt2Loop(_, _, _)
Opt2Loop(best, dist, n) ==
  LET r == TwoOptScan(best, dist, FALSE, 1, 2, n)
  IN  IF r.improved THEN Opt2Loop(r.route, r.distance, n) ELSE r.route

optimize2Opt(r) == Opt2Loop(r, calculateTotalDistance(r), Len(r))

\* C4: whichever of the five operators ran and whatever was drawn, the
\* returned sequence is no longer than the input sequence.
C4_Monotone ==
  lsPc = "done" =>
    calculateTotalDistance(lsResult) <= calculateTotalDistance(route)

\* simulated annealing returned a strictly shorter sequence although it had
\* accepted a longer one as its current route
C4_Witness ==
  /\ lsPc = "done" /\ op = "sa"
  /\ calculateTotalDistance(lsResult) < calculateTotalDistance(route)
  /\ currentDistance > bestDistance

\* C5: the returned sequence holds the same stops, each as many times, as the
\* input; so do the sequences the operator holds while it runs.
C5_Permutation ==
  /\ SameMultiset(bestRoute, route)
  /\ SameMultiset(currentRoute, route)
  /\ lsPc = "done" => SameMultiset(lsResult, route)

\* Or-opt returned a reordered sequence
C5_Witness ==
  /\ lsPc = "done" /\ op = "oropt"
  /\ lsResult # route

\* C6: the sequence optimize2Opt returns has no improving reversal (i, j),
\* 1 <= i < j <= length - 2, and optimize2Opt maps it to itself.
C6_LocalOptimum ==
  (lsPc = "done" /\ op = "2opt") =>
    /\ \A i \in 1..(Len(lsResult) - 3) : \A j \in (i + 1)..(Len(lsResult) - 2) :
         calculateTotalDistance(twoOptSwap(lsResult, i, j))
           >= calculateTotalDistance(lsResult)
    /\ lsResult = optimize2Opt(route)
    /\ optimize2Opt(lsResult) = lsResult

\* 2-opt returned a reordered sequence of five stops
C6_Witness ==
  /\ lsPc = "done" /\ op = "2opt"
  /\ Len(route) = 5
  /\ lsResult # route

\* optimizeSimulatedAnnealing's loop when Math.random() returns 0 at every
\* call: generateNeighbor draws i = 1 and j = 2, and the neighbour is
\* accepted, 0 being below every acceptance probability
RECURSIVE SAZeroLoop(_, _, _, _, _)
SAZeroLoop(cur, curDistance, best, bestDist, temp) ==
  IF ~(temp > minTemp) THEN best
  ELSE LET neighbor == twoOptSwap(cur, 1, 2)
           neighborDistance == calculateTotalDistance(neighbor)
           b == SAUpdateBest(neighbor, neighborDistance, best, bestDist)
       IN  SAZeroLoop(neighbor, neighborDistance, b.route, b.distance,
                      temp \div 2)

\* what optimizeSimulatedAnnealing(r, temp) returns in that run
SAZeroRun(r, temp) ==
  SAZeroLoop(r, calculateTotalDistance(r), r, calculateTotalDistance(r), temp)

\* C17 as stated, for optimizeSimulatedAnnealing: the sequence returned is
\* fixed by the arguments of the call, there being no other input; so it is
\* the sequence returned by the run on the same arguments in which every
\* random draw is 0.
C17_Deterministic ==
  (lsPc = "done" /\ op = "sa") => lsResult = SAZeroRun(route, initialTemp)

\* the routes made of the segments [0, i), [i, j), [j, k) and [k, n) of r by
\* keeping or reversing each of the two middle ones and keeping or swapping
\* their order, r itself left out
Recombinations(r, i, j, k) ==
  LET seg1 == SliceJS(r, 0, i)
      seg2 == SliceJS(r, i, j)
      seg3 == SliceJS(r, j, k)
      seg4 == SliceJS(r, k, Len(r))
  IN  UNION { { seg1 \o a \o b \o seg4, seg1 \o b \o a \o seg4 } :
              a \in {seg2, ReverseJS(seg2)}, b \in {seg3, ReverseJS(seg3)} }
        \ {r}

\* C19 as stated: for every triple (i, j, k) the loops of optimize3Opt scan,
\* the moves generated from the best route hold each of its recombinations
\* other than the best route itself.
C19_AllSeven ==
  (op = "3opt" /\ lsPc = "loop") =>
    \A i \in 1..(Len(route) - 4) :
      \A j \in (i + 1)..(Len(route) - 3) :
        \A k \in (j + 1)..(Len(route) - 2) :
          Recombinations(bestRoute, i, j, k)
            \subseteq Range(generateThreeOptMoves(bestRoute, i, j, k))

\* p and q are opposite corners of a square with sides along the grid
Diagonal(p, q) == p[1] # q[1] /\ p[2] # q[2]

\* the tour through the stops of s and back to the first has two legs that
\* cross; for the four corners of a square that is so when some leg, the
\* closing one included, is a diagonal
Crossed(s) ==
  \E x \in 1..Len(s) : Diagonal(s[x], s[(x % Len(s)) + 1])

\* C20 as stated: for the route [0,0], [2,0], [0,2], [2,2], whose tour is
\* crossed, optimize2Opt returns an order of the same four stops whose tour
\* is not crossed and that is strictly shorter than the route.
C20_Uncrossed ==
  ( /\ lsPc = "done" /\ op = "2opt"
    /\ route = << <<0, 0>>, <<2, 0>>, <<0, 2>>, <<2, 2>> >> )
  => /\ Crossed(route)
     /\ SameMultiset(lsResult, route)
     /\ ~Crossed(lsResult)
     /\ calculateTotalDistance(lsResult) < calculateTotalDistance(route)

\* what is left of a call of optimize2Opt, optimize3Opt or optimizeOrOpt:
\* the best distance, which is a whole number of metres and not negative,
\* weighs most, then whether another pass follows, then the return
PassesLeft ==
  3 * bestDistance
    + (IF lsPc # "loop" THEN 0 ELSE IF improved THEN 2 ELSE 1)

\* C26: in optimize2Opt, optimize3Opt and optimizeOrOpt a pass is followed
\* by another pass only when it made the best distance strictly smaller,
\* every step of the call brings it nearer to its end, and a call in its
\* loop is never left without a step to take.
C26_Terminates ==
  /\ [](op \in {"2opt", "3opt", "oropt"} =>
          /\ PassesLeft >= 0
          /\ lsPc = "loop" => (improved \/ LoopExit))
  /\ [][ (op \in {"2opt", "3opt", "oropt"}) =>
           /\ PassesLeft' < PassesLeft
           /\ (lsPc' = "loop" /\ improved') => bestDistance' < bestDistance
           /\ (lsPc' = "loop" /\ ~improved') => bestRoute' = bestRoute ]_vars

\* 3-opt is about to run a pass after a pass that shortened the route
C26_Witness ==
  /\ op = "3opt" /\ lsPc = "loop" /\ improved
  /\ bestDistance < calculateTotalDistance(route)

\* C27 as stated: whichever of the five operators ran and whatever was
\* drawn, the sequence returned for an input of two stops or more starts
\* with the first stop of the input and ends with its last stop.
C27_EndsInPlace ==
  (lsPc = "done" /\ Len(route) >= 2) =>
    /\ lsResult[1] = route[1]
    /\ lsResult[Len(lsResult)] = route[Len(route)]

\* C10: in simulated annealing the best distance never goes up, is never
\* above the current distance, is the distance of bestRoute, and the returned
\* sequence is bestRoute.
C10_BestEver ==
  /\ [](op = "sa" =>
         /\ bestDistance <= currentDistance
         /\ bestDistance = calculateTotalDistance(bestRoute)
         /\ lsPc = "done" => lsResult = bestRoute)
  /\ [][op = "sa" => bestDistance' <= bestDistance]_vars

\* a longer neighbour is the current route while the best route is an
\* earlier, shorter one
C10_Witness ==
  /\ op = "sa" /\ lsPc = "loop"
  /\ bestDistance < calculateTotalDistance(route)
  /\ currentDistance > bestDistance

-----------------------------------------------------------------------------
(* AStarPathfinder *)

\* no improvement operator is being run
IdleLS ==
  /\ op = "none" /\ route = <<>> /\ bestRoute = <<>> /\ bestDistance = 0
  /\ improved = FALSE /\ currentRoute = <<>> /\ currentDistance = 0
  /\ temperature = 0 /\ initialTemp = 0 /\ startEdge = 0 /\ maxDepth = 0
  /\ lsPc = "idle" /\ lsResult = <<>>

\* gScore and fScore of a node that was created and not yet reached
Infinity == 1000000000

\* no node (cameFrom: null)
NoNode == <<>>

\* The pathfinder's positions are [latitude, longitude] pairs in units of
\* a tenth of a micro-degree, one decimal more than a node id keeps.

\* the whole degrees of a coordinate
Degrees(x) == x \div 10000000

\* the haversine formula again (lines 75-86): the table entry of the two
\* positions' whole degrees; two different positions of the same whole
\* degrees lie less than a metre apart, which rounds up to one
heuristic(pos1, pos2) ==
  LET d == DistanceTable[Degrees(pos1[1]) * 3 + Degrees(pos1[2]) + 1]
                        [Degrees(pos2[1]) * 3 + Degrees(pos2[2]) + 1]
  IN  IF d = 0 /\ pos1 # pos2 THEN 1 ELSE d

\* Number.prototype.toFixed(6) of a coordinate that is not negative: the
\* nearest whole number of micro-degrees
toFixed6(x) == (x + 5) \div 10

\* `${lat.toFixed(6)},${lon.toFixed(6)}`: the two coordinates with six
\* decimals, held as a pair of whole micro-degrees
positionToNodeId(position) == <<toFixed6(position[1]), toFixed6(position[2])>>

\* this.nodes after getOrCreateNode(id)
getOrCreateNode(ns, id) ==
  IF id \in DOMAIN ns THEN ns
  ELSE ns @@ (id :> [id |-> id, gScore |-> Infinity, fScore |-> Infinity,
                     cameFrom |-> NoNode, position |-> <<0, 0>>])

\* openSet.reduce with the comparison dropped: the first open node
LowestFScore_first(open, ns) == open[1]

\* openSet.reduce((min, node) => node.fScore < min.fScore ? node : min):
\* the first node of the array among those of least fScore
LowestFScore(open, ns) ==
  LET least == CHOOSE x \in DOMAIN open :
                 /\ \A y \in DOMAIN open : ns[open[x]].fScore <= ns[open[y]].fScore
                 /\ \A y \in 1..(x - 1) : ns[open[y]].fScore > ns[open[x]].fScore
  IN  open[least]

\* removeFromOpenSet
removeFromOpenSet(open, id) ==
  IF id \in Range(open)
  THEN LET index == CHOOSE x \in DOMAIN open :
                      open[x] = id /\ \A y \in 1..(x - 1) : open[y] # id
       IN  SpliceJS(open, index - 1, 1, <<>>)
  ELSE open

\* the body of the for loop over the neighbours of `current` (lines 50-64)
\* for one neighbour: this.nodes and this.openSet afterwards
RelaxNeighbor(ns, open, closed, current, goal, neighbor) ==
  IF neighbor.id \in closed
  THEN [nodes |-> ns, openSet |-> open]
  ELSE
    LET tentativeGScore == ns[current].gScore + neighbor.distance
        ns1    == getOrCreateNode(ns, neighbor.id)
        inOpen == neighbor.id \in Range(open)
    IN  IF inOpen /\ tentativeGScore >= ns1[neighbor.id].gScore
        THEN [nodes |-> ns1, openSet |-> open]
        ELSE [nodes |->
                [ns1 EXCEPT ![neighbor.id] =
                   [id |-> neighbor.id,
                    cameFrom |-> current,
                    gScore |-> tentativeGScore,
                    fScore |-> tentativeGScore
                                 + heuristic(neighbor.position, goal),
                    position |-> neighbor.position]],
              openSet |-> IF inOpen THEN open ELSE Append(open, neighbor.id)]

\* the for loop over the neighbours of `current` (lines 49-65): this.nodes
\* and this.openSet after the neighbours nbrs were handled in order
RECURSIVE ExploreNeighbors(_, _, _, _, _, _)
ExploreNeighbors(ns, open, closed, current, goal, nbrs) ==
  IF nbrs = <<>> THEN [nodes |-> ns, openSet |-> open]
  ELSE CHOOSE res \in
         { ExploreNeighbors(step.nodes, step.openSet, closed, current, goal,
                            Tail(nbrs)) :
             step \in { RelaxNeighbor(ns, open, closed, current, goal, Head(nbrs)) } } :
         TRUE

\* reconstructPath: the segments from the start to node id, first one first
RECURSIVE reconstructPath(_, _)
reconstructPath(ns, id) ==
  IF ns[id].cameFrom = NoNode THEN <<>>
  ELSE LET from == ns[id].cameFrom
       IN  Append(reconstructPath(ns, from),
                  [start |-> ns[from].position,
                   end |-> ns[id].position,
                   distance |-> heuristic(ns[from].position, ns[id].position)])

\* the positions of the road network's nodes: [0, 0], [0, 1], [1, 1], [0, 2]
NodePositions ==
  { <<0, 0>>, <<0, 10000000>>, <<10000000, 10000000>>, <<0, 20000000>> }

\* the possible roads: every two node positions but the two ends of the
\* grid row, which only a path over the others joins
Roads ==
  { e \in SUBSET NodePositions : Cardinality(e) = 2 }
    \ { { <<0, 0>>, <<0, 20000000>> } }

\* NodePositions in the order getNeighbors lists them
NodeOrder ==
  << <<0, 0>>, <<0, 10000000>>, <<10000000, 10000000>>, <<0, 20000000>> >>

\* the positions findPath is called with: the node positions and
\* [0.0000001, 1], which has the node id of [0, 1]
CallPositions == NodePositions \cup { <<1, 10000000>> }

\* the neighbour list of node position p in the network whose roads and
\* detours (in units of 100 km) are given by detour; -1 is no road
RECURSIVE NeighborList(_, _, _)
NeighborList(detour, p, k) ==
  IF k > Len(NodeOrder) THEN <<>>
  ELSE LET q == NodeOrder[k]
       IN  IF {p, q} \in Roads /\ detour[{p, q}] >= 0
           THEN << [id |-> positionToNodeId(q), position |-> q,
                    distance |-> heuristic(p, q) + detour[{p, q}] * 100000] >>
                  \o NeighborList(detour, p, k + 1)
           ELSE NeighborList(detour, p, k + 1)

NodeIds == { positionToNodeId(p) : p \in NodePositions }

PositionOf(id) == CHOOSE p \in NodePositions : positionToNodeId(p) = id

\* the two-way road networks over NodePositions
RoadNetworks ==
  { [id \in NodeIds |-> NeighborList(detour, PositionOf(id), 1)] :
      detour \in [Roads -> (-1)..MaxDetour] }

\* a pathfinder as constructed: empty node map, open set and closed set
InitAStar ==
  /\ IdleLS
  /\ IdleVRP
  /\ IdleOpt
  /\ IdleDec /\ IdleFleet /\ IdleTracker
  /\ roadNetwork = <<>>
  /\ asStart = <<0, 0>> /\ asGoal = <<0, 0>>
  /\ nodes = <<>>
  /\ openSet = <<>>
  /\ closedSet = {}
  /\ asPc = "idle"
  /\ asPath = <<>>
  /\ asReused = FALSE

\* findPath(start, goal) up to the while loop (lines 22-31), on a road
\* network whose answers are fixed for the call: reset(), the creation of
\* startNode and goalNode, openSet.push(startNode)
AStarCall ==
  /\ asPc = "idle"
  /\ roadNetwork' \in RoadNetworks
  /\ asStart' \in CallPositions
  /\ asGoal' \in CallPositions
  /\ nodes' = [ getOrCreateNode(
                  getOrCreateNode(<<>>, positionToNodeId(asStart')),
                  positionToNodeId(asGoal'))
                EXCEPT ![positionToNodeId(asStart')] =
                  [id |-> positionToNodeId(asStart'), cameFrom |-> NoNode,
                   gScore |-> 0, fScore |-> heuristic(asStart', asGoal'),
                   position |-> asStart'] ]
  /\ openSet' = << positionToNodeId(asStart') >>
  /\ closedSet' = {}
  /\ asPc' = "loop"
  /\ asPath' = <<>>
  /\ UNCHANGED <<asReused, lsVars, vrpVars, optVars, unitVars>>

\* the open node of least fScore is the goal: return the path
AStarReturn ==
  /\ asPc = "loop" /\ openSet # <<>>
  /\ LET current == LowestFScore(openSet, nodes)
     IN  /\ current = positionToNodeId(asGoal)
         /\ asPath' = reconstructPath(nodes, current)
  /\ asPc' = "returned"
  /\ UNCHANGED <<roadNetwork, asStart, asGoal, nodes, openSet, closedSet,
                 asReused, lsVars, vrpVars, optVars, unitVars>>

\* one iteration of while (this.openSet.length > 0) that expands a node
AStarExpand ==
  /\ asPc = "loop" /\ openSet # <<>>
  /\ \E current \in { LowestFScore(openSet, nodes) } :
       /\ current # positionToNodeId(asGoal)
       /\ closedSet' = closedSet \cup {current}
       /\ \E r \in { ExploreNeighbors(nodes, removeFromOpenSet(openSet, current),
                                      closedSet \cup {current}, current, asGoal,
                                      roadNetwork[current]) } :
            /\ nodes' = r.nodes
            /\ openSet' = r.openSet
  /\ UNCHANGED <<roadNetwork, asStart, asGoal, asPc, asPath, asReused,
                 lsVars, vrpVars, optVars, unitVars>>

\* the open set is empty but the caller gets an empty path
AStarFail_returnsEmpty ==
  /\ asPc = "loop" /\ openSet = <<>>
  /\ asPc' = "returned"
  /\ UNCHANGED <<roadNetwork, asStart, asGoal, nodes, openSet, closedSet,
                 asPath, asReused, lsVars, vrpVars, optVars, unitVars>>

\* the open set is empty: throw new Error('No path found between start and goal')
AStarFail ==
  /\ asPc = "loop" /\ openSet = <<>>
  /\ asPc' = "error"
  /\ UNCHANGED <<roadNetwork, asStart, asGoal, nodes, openSet, closedSet,
                 asPath, asReused, lsVars, vrpVars, optVars, unitVars>>

NextAStar == AStarCall \/ AStarReturn \/ AStarExpand \/ AStarFail

SpecAStar == InitAStar /\ [][NextAStar]_vars

\* reset() that leaves the closed set as the earlier call left it
reset_keepsClosedSet(ns, open, closed) ==
  [nodes |-> <<>>, openSet |-> <<>>, closedSet |-> closed]

\* reset(): this.nodes.clear(), this.openSet = [], this.closedSet.clear()
reset(ns, open, closed) ==
  [nodes |-> <<>>, openSet |-> <<>>, closedSet |-> {}]

\* findPath(start, goal) up to the while loop (lines 22-31) on a pathfinder
\* that served a call before, which returned or threw: the road network is
\* the one the pathfinder was constructed with, and the node map, open set
\* and closed set are as the earlier call left them
AStarCallAgain ==
  /\ asPc \in {"returned", "error"}
  /\ asStart' \in CallPositions
  /\ asGoal' \in CallPositions
  /\ \E cleared \in { reset(nodes, openSet, closedSet) } :
       /\ nodes' = [ getOrCreateNode(
                       getOrCreateNode(cleared.nodes, positionToNodeId(asStart')),
                       positionToNodeId(asGoal'))
                     EXCEPT ![positionToNodeId(asStart')].gScore = 0,
                            ![positionToNodeId(asStart')].fScore =
                              heuristic(asStart', asGoal'),
                            ![positionToNodeId(asStart')].position = asStart' ]
       /\ openSet' = Append(cleared.openSet, positionToNodeId(asStart'))
       /\ closedSet' = cleared.closedSet
  /\ asPc' = "loop"
  /\ asPath' = <<>>
  /\ asReused' = TRUE
  /\ UNCHANGED <<roadNetwork, lsVars, vrpVars, optVars, unitVars>>

NextReuse == NextAStar \/ AStarCallAgain

\* a pathfinder that serves one findPath call after another
SpecReuse == InitAStar /\ [][NextReuse]_vars

\* the steps of a findPath call that is under way
AStarRun == AStarReturn \/ AStarExpand \/ AStarFail

\* findPath is straight-line code: a call under way that can take a step
\* takes it
FairSpecAStar == SpecAStar /\ WF_vars(AStarRun)

-----------------------------------------------------------------------------
(* Properties of the pathfinder *)

\* the weight of the road from node id u to node id v, Infinity without one
EdgeWeight(u, v) ==
  LET es == { x \in DOMAIN roadNetwork[u] : roadNetwork[u][x].id = v }
  IN  IF es = {} THEN Infinity
      ELSE LET x == CHOOSE x \in es :
                      \A y \in es : roadNetwork[u][x].distance
                                      <= roadNetwork[u][y].distance
           IN  roadNetwork[u][x].distance

\* the least element of a non-empty set of numbers
Least(S) == CHOOSE m \in S : \A m2 \in S : m <= m2

\* one round of Bellman-Ford over the least weights prev (a sequence in the
\* order of NodeOrder), for the nodes from the k-th on
RECURSIVE RelaxFrom(_, _)
RelaxFrom(prev, k) ==
  IF k > Len(NodeOrder) THEN <<>>
  ELSE LET v == positionToNodeId(NodeOrder[k])
       IN  << Least({prev[k]} \cup
                    { prev[x] + EdgeWeight(positionToNodeId(NodeOrder[x]), v) :
                      x \in { x \in 1..Len(NodeOrder) :
                                /\ prev[x] < Infinity
                                /\ EdgeWeight(positionToNodeId(NodeOrder[x]), v)
                                     < Infinity } }) >>
             \o RelaxFrom(prev, k + 1)

\* Bellman-Ford: k more rounds
RECURSIVE LeastWeight(_, _)
LeastWeight(prev, k) ==
  IF k = 0 THEN prev
  ELSE LET next == CHOOSE r \in { RelaxFrom(p, 1) : p \in {prev} } : TRUE
       IN  LeastWeight(next, k - 1)

\* the sequence that is 0 at the start node and Infinity elsewhere
RECURSIVE StartWeights(_)
StartWeights(k) ==
  IF k > Len(NodeOrder) THEN <<>>
  ELSE << IF positionToNodeId(NodeOrder[k]) = positionToNodeId(asStart)
          THEN 0 ELSE Infinity >> \o StartWeights(k + 1)

\* the least total weight of a path from start to goal in roadNetwork,
\* Infinity when there is none
ShortestDistance ==
  LET least == LeastWeight(StartWeights(1), Len(NodeOrder))
  IN  least[CHOOSE k \in 1..Len(NodeOrder) :
              positionToNodeId(NodeOrder[k]) = positionToNodeId(asGoal)]

GoalReachable == asPc \in {"loop", "returned", "error"} /\ ShortestDistance < Infinity

\* the total weight of the roads the returned segments run along
RECURSIVE PathWeight(_)
PathWeight(path) ==
  IF path = <<>> THEN 0
  ELSE EdgeWeight(positionToNodeId(Head(path).start),
                  positionToNodeId(Head(path).end)) + PathWeight(Tail(path))

\* C7: on a road network whose weights are at least the great-circle
\* distance of the endpoints, the roads of the returned path weigh as much
\* as the lightest path from start to goal.
C7_Optimal ==
  asPc = "returned" => PathWeight(asPath) = ShortestDistance

\* a path of two roads was returned that is lighter than the road joining
\* start and goal directly
C7_Witness ==
  /\ asPc = "returned"
  /\ Len(asPath) = 2
  /\ PathWeight(asPath)
       < EdgeWeight(positionToNodeId(asStart), positionToNodeId(asGoal))
  /\ EdgeWeight(positionToNodeId(asStart), positionToNodeId(asGoal)) < Infinity

C15_Chain ==
  (asPc = "returned" /\ asStart # asGoal) =>
    /\ asPath # <<>>
    /\ asPath[1].start = asStart
    /\ asPath[Len(asPath)].end = asGoal
    /\ \A k \in 1..(Len(asPath) - 1) : asPath[k + 1].start = asPath[k].end

\* the while loop of findPath (lines 33-68) run to its end from the node
\* map ns, open set open and closed set closed: how the call ends and the
\* path it returns
RECURSIVE AStarLoop(_, _, _, _, _)
AStarLoop(ns, open, closed, goal, network) ==
  IF open = <<>> THEN [pc |-> "error", path |-> <<>>]
  ELSE
    LET current == LowestFScore(open, ns)
    IN  IF current = positionToNodeId(goal)
        THEN [pc |-> "returned", path |-> reconstructPath(ns, current)]
        ELSE CHOOSE res \in
               { AStarLoop(r.nodes, r.openSet, closed \cup {current}, goal, network) :
                   r \in { ExploreNeighbors(ns, removeFromOpenSet(open, current),
                                            closed \cup {current}, current, goal,
                                            network[current]) } } :
               TRUE

\* findPath(start, goal) on a pathfinder newly constructed with network
FreshFindPath(start, goal, network) ==
  AStarLoop([ getOrCreateNode(
                getOrCreateNode(<<>>, positionToNodeId(start)),
                positionToNodeId(goal))
              EXCEPT ![positionToNodeId(start)] =
                [id |-> positionToNodeId(start), cameFrom |-> NoNode,
                 gScore |-> 0, fScore |-> heuristic(start, goal),
                 position |-> start] ],
            << positionToNodeId(start) >>, {}, goal, network)

\* C25: a findPath call on a pathfinder that served other calls before ends
\* as the same call on a newly constructed pathfinder with the same road
\* network does: with the same segment list, or with the error.
C25_NoCrossCallState ==
  (asReused /\ asPc \in {"returned", "error"}) =>
    /\ asPc = FreshFindPath(asStart, asGoal, roadNetwork).pc
    /\ asPath = FreshFindPath(asStart, asGoal, roadNetwork).path

\* a path of two roads was returned by a pathfinder that served a call
\* before
C25_Witness ==
  /\ asReused
  /\ asPc = "returned"
  /\ Len(asPath) = 2

\* the sum of the distance fields of the returned segments
RECURSIVE SegmentDistances(_)
SegmentDistances(path) ==
  IF path = <<>> THEN 0
  ELSE Head(path).distance + SegmentDistances(Tail(path))

\* C21 as stated: the returned list has one segment per road of the found
\* path, and the segments' distances sum to the total weight of those
\* roads as getNeighbors supplied them.
C21_SegmentDistances ==
  asPc = "returned" =>
    /\ \A k \in 1..Len(asPath) :
         EdgeWeight(positionToNodeId(asPath[k].start),
                    positionToNodeId(asPath[k].end)) < Infinity
    /\ SegmentDistances(asPath) = PathWeight(asPath)

-----------------------------------------------------------------------------
(* VRPSolver: instances *)

\* delivery k has id k and lies at DeliverySites[k]
DeliverySites == << <<1, 0>>, <<0, 1>>, <<1, 1>> >>

\* the weights of a delivery
Weights == {1, 2, 3}

\* a capacity that holds a light delivery or two but not the heaviest one,
\* and one that holds them all
Capacities == {2, 6}

VehicleIds == <<"v1", "v2">>

\* `vehicleId: ''`
NoVehicle == ""

Vehicle(k, c, st) == [id |-> VehicleIds[k], capacity |-> c, status |-> st]

\* the fleets: one vehicle, active or not, alone or followed by an active
\* vehicle of the other capacity
Fleets ==
  UNION { { <<Vehicle(1, c, st)>>,
            <<Vehicle(1, c, st),
              Vehicle(2, CHOOSE c2 \in Capacities : c2 # c, "active")>> } :
          c \in Capacities, st \in {"active", "idle"} }

\* the lists of one or more sites, each at most once, in any order
SiteLists ==
  { s \in UNION { [1..n -> 1..Len(DeliverySites)] : n \in 1..Len(DeliverySites) } :
      \A a, b \in 1..Len(s) : a # b => s[a] # s[b] }

DeliveryLists ==
  UNION { { [k \in 1..Len(s) |-> [id |-> s[k], position |-> DeliverySites[s[k]],
                                   weight |-> w[k]]] :
              w \in [1..Len(s) -> Weights] } :
          s \in SiteLists }

Instances ==
  { [depot |-> <<0, 0>>, vehicles |-> f, deliveries |-> d] :
      f \in Fleets, d \in DeliveryLists }

-----------------------------------------------------------------------------
(* VRPSolver: helpers shared by the two constructors *)

\* Array.prototype.find / findIndex: 1-based index of the first element
\* satisfying P, 0 when there is none
FindFirst(s, P(_)) ==
  LET hits == { k \in 1..Len(s) : P(s[k]) }
  IN  IF hits = {} THEN 0 ELSE CHOOSE k \in hits : \A k2 \in hits : k <= k2

\* the array without its element at 1-based index k (splice(index, 1))
RemoveAt(s, k) == SubSeq(s, 1, k - 1) \o SubSeq(s, k + 1, Len(s))

\* instance.deliveries.find(d => d.id === deliveryId)
DeliveryOf(inst, deliveryId) ==
  inst.deliveries[FindFirst(inst.deliveries, LAMBDA d : d.id = deliveryId)]

getRoutePositions(r, inst) ==
  <<inst.depot>>
    \o [k \in 1..Len(r.sequence) |-> DeliveryOf(inst, r.sequence[k]).position]
    \o <<inst.depot>>

RECURSIVE calculateRouteDistance(_)
calculateRouteDistance(positions) ==
  IF Len(positions) <= 1 THEN 0
  ELSE calculateDistance(positions[1], positions[2])
         + calculateRouteDistance(Tail(positions))

\* (distance / averageSpeed) * 60 with averageSpeed = 50 km/h: the minutes a
\* route takes, in thousandths of a minute (distance being in metres)
calculateRouteDuration(positions) ==
  (calculateRouteDistance(positions) * 60) \div 50

\* findSuitableVehicle handing out the first active vehicle whatever it holds
findSuitableVehicle_anyActive(vehicles, requiredCapacity) ==
  FindFirst(vehicles, LAMBDA v : v.status = "active")

\* 1-based index of the vehicle found, 0 for null
findSuitableVehicle(vehicles, requiredCapacity) ==
  FindFirst(vehicles, LAMBDA v : v.capacity >= requiredCapacity
                                   /\ v.status = "active")

isMergeFeasible(route1, route2, inst) ==
  LET totalLoad == route1.load + route2.load
  IN  FindFirst(inst.vehicles, LAMBDA v : v.capacity >= totalLoad) # 0

\* the for loop of assignVehicles from route k on (1-based); availableVehicles
\* loses every vehicle handed out
RECURSIVE AssignFrom(_, _, _)
AssignFrom(rs, k, availableVehicles) ==
  IF k > Len(rs) THEN rs
  ELSE IF rs[k].vehicleId = NoVehicle
       THEN LET s == FindFirst(availableVehicles,
                               LAMBDA v : v.capacity >= rs[k].load)
            IN  IF s # 0
                THEN AssignFrom([rs EXCEPT ![k].vehicleId = availableVehicles[s].id],
                                k + 1, RemoveAt(availableVehicles, s))
                ELSE AssignFrom(rs, k + 1, availableVehicles)
       ELSE AssignFrom(rs, k + 1, availableVehicles)

\* the routes after assignVehicles(routes, vehicles)
assignVehicles(rs, vehicles) ==
  AssignFrom(rs, 1, SelectSeq(vehicles, LAMBDA v : v.status = "active"))

\* route.duration > 480: eight hours, in thousandths of a minute
maxRouteDuration == 480000

\* the for loop of validateSolution from route k on (1-based): the
\* violations it pushes, in order
RECURSIVE ValidateFrom(_, _, _)
ValidateFrom(rs, k, inst) ==
  IF k > Len(rs) THEN <<>>
  ELSE LET v == FindFirst(inst.vehicles, LAMBDA x : x.id = rs[k].vehicleId)
           capacity == IF v # 0 /\ rs[k].load > inst.vehicles[v].capacity
                       THEN << [type |-> "capacity_violation",
                                severity |-> "error",
                                affectedRoutes |-> <<rs[k].vehicleId>>] >>
                       ELSE <<>>
           duration == IF rs[k].duration > maxRouteDuration
                       THEN << [type |-> "duration_violation",
                                severity |-> "warning",
                                affectedRoutes |-> <<rs[k].vehicleId>>] >>
                       ELSE <<>>
       IN  capacity \o duration \o ValidateFrom(rs, k + 1, inst)

validateSolution(rs, inst) == ValidateFrom(rs, 1, inst)

\* violations.filter(v => v.severity === 'error').length === 0
NoErrorViolation(rs, inst) ==
  Len(SelectSeq(validateSolution(rs, inst), LAMBDA v : v.severity = "error")) = 0

\* routes.reduce((sum, route) => sum + route.distance, 0)
RECURSIVE TotalDistance(_)
TotalDistance(rs) ==
  IF rs = <<>> THEN 0 ELSE Head(rs).distance + TotalDistance(Tail(rs))

\* routes.reduce((sum, route) => sum + route.violations.length * 100, 0)
RECURSIVE ViolationPenalty(_)
ViolationPenalty(rs) ==
  IF rs = <<>> THEN 0
  ELSE Len(Head(rs).violations) * 100 + ViolationPenalty(Tail(rs))

calculateObjectiveValue(rs) == TotalDistance(rs) + ViolationPenalty(rs)

-----------------------------------------------------------------------------
(* VRPSolver.solveClarkeWright *)

\* the two nested for loops of calculateSavings from (i, j) on, 0-based
RECURSIVE SavingsFrom(_, _, _)
SavingsFrom(inst, i, j) ==
  LET deliveries == inst.deliveries
  IN  IF i >= Len(deliveries) THEN <<>>
      ELSE IF j >= Len(deliveries) THEN SavingsFrom(inst, i + 1, i + 2)
      ELSE LET delivery1  == deliveries[i + 1]
               delivery2  == deliveries[j + 1]
               depotTo1   == calculateDistance(inst.depot, delivery1.position)
               depotTo2   == calculateDistance(inst.depot, delivery2.position)
               distance12 == calculateDistance(delivery1.position,
                                               delivery2.position)
           IN  << [delivery1 |-> delivery1.id, delivery2 |-> delivery2.id,
                   saving |-> depotTo1 + depotTo2 - distance12,
                   distance |-> distance12] >>
                 \o SavingsFrom(inst, i, j + 1)

calculateSavings(inst) == SavingsFrom(inst, 0, 1)

\* x put behind every element that saves at least as much
RECURSIVE InsertSaving(_, _)
InsertSaving(sorted, x) ==
  IF sorted = <<>> THEN <<x>>
  ELSE IF Head(sorted).saving >= x.saving
       THEN <<Head(sorted)>> \o InsertSaving(Tail(sorted), x)
       ELSE <<x>> \o sorted

\* savings.sort((a, b) => b.saving - a.saving): descending, equal savings
\* keep their order (the sort is stable)
RECURSIVE SortSavings(_)
SortSavings(s) ==
  IF s = <<>> THEN <<>>
  ELSE InsertSaving(SortSavings(SubSeq(s, 1, Len(s) - 1)), s[Len(s)])

\* line 105-112: every delivery a route of its own
InitialRoutes(inst) ==
  [k \in 1..Len(inst.deliveries) |->
     LET delivery == inst.deliveries[k]
     IN  [vehicleId |-> NoVehicle,
          sequence |-> <<delivery.id>>,
          load |-> delivery.weight,
          distance |-> calculateRouteDistance(
                         <<inst.depot, delivery.position, inst.depot>>),
          duration |-> calculateRouteDuration(
                         <<inst.depot, delivery.position, inst.depot>>),
          violations |-> <<>>]]

\* lines 125-137: route i2 appended to route i1 and taken out of the list
MergeRoutes(rs, i1, i2, vehicleId, inst) ==
  LET sequence == rs[i1].sequence \o rs[i2].sequence
      merged   == [rs[i1] EXCEPT !.sequence = sequence,
                                 !.load = rs[i1].load + rs[i2].load,
                                 !.vehicleId = vehicleId]
  IN  RemoveAt([rs EXCEPT ![i1] =
                  [merged EXCEPT
                     !.distance =
                       calculateRouteDistance(getRoutePositions(merged, inst)),
                     !.duration =
                       calculateRouteDuration(getRoutePositions(merged, inst))]],
               i2)

\* the body of for (const saving of savings): the routes afterwards
MergeStep(rs, saving, inst) ==
  LET i1 == FindFirst(rs, LAMBDA r : r.sequence[Len(r.sequence)] = saving.delivery1)
      i2 == FindFirst(rs, LAMBDA r : r.sequence[1] = saving.delivery2)
  IN  IF i1 # 0 /\ i2 # 0 /\ i1 # i2
      THEN LET mergedLoad == rs[i1].load + rs[i2].load
               availableVehicle == findSuitableVehicle(inst.vehicles, mergedLoad)
           IN  IF availableVehicle # 0 /\ isMergeFeasible(rs[i1], rs[i2], inst)
               THEN MergeRoutes(rs, i1, i2,
                                inst.vehicles[availableVehicle].id, inst)
               ELSE rs
      ELSE rs

\* one iteration of for (const saving of savings)
CWMerge ==
  /\ vrpPc = "merge" /\ savingIdx < Len(savings)
  /\ routes' = MergeStep(routes, savings[savingIdx + 1], instance)
  /\ savingIdx' = savingIdx + 1
  /\ UNCHANGED <<alg, instance, options, savings, population, bestSolution,
                 stagnationCounter, generation, minFitness, vrpPc, vrpResult,
                 lsVars, asVars, optVars, unitVars>>

\* steps 5 and 6 and the return
CWReturn ==
  /\ vrpPc = "merge" /\ ~(savingIdx < Len(savings))
  /\ \E assigned \in {assignVehicles(routes, instance.vehicles)} :
       /\ routes' = assigned
       /\ vrpResult' = [routes |-> assigned,
                        objectiveValue |-> calculateObjectiveValue(assigned),
                        feasible |-> NoErrorViolation(assigned, instance)]
  /\ vrpPc' = "returned"
  /\ UNCHANGED <<alg, instance, options, savings, savingIdx, population,
                 bestSolution, stagnationCounter, generation, minFitness,
                 lsVars, asVars, optVars, unitVars>>

-----------------------------------------------------------------------------
(* VRPSolver.solveGenetic: helpers *)

\* const maxStagnation = 50
maxStagnation == 50

\* const tournamentSize = 3
tournamentSize == 3

\* an array slot never written (new Array(size)): undefined
Hole == 0

\* [a[i], a[j]] = [a[j], a[i]], 0-based
SwapJS(a, i, j) == [a EXCEPT ![i + 1] = a[j + 1], ![j + 1] = a[i + 1]]

\* the shuffle loop for (j = ...; j > 0; j--) from j on: every outcome
RECURSIVE ShuffleFrom(_, _)
ShuffleFrom(chromosome, j) ==
  IF j <= 0 THEN {chromosome}
  ELSE UNION { ShuffleFrom(SwapJS(chromosome, j, k), j - 1) :
               k \in RandomFloor(j + 1) }

\* every population initializePopulation can build
initializePopulation(inst, size) ==
  LET deliveryIds == [k \in 1..Len(inst.deliveries) |-> inst.deliveries[k].id]
  IN  [1..size -> ShuffleFrom(deliveryIds, Len(deliveryIds) - 1)]

EmptyRoute ==
  [vehicleId |-> NoVehicle, sequence |-> <<>>, load |-> 0, distance |-> 0,
   duration |-> 0, violations |-> <<>>]

\* the loop of chromosomeToSolution that also starts a new route when the
\* delivery fills the reference vehicle exactly
RECURSIVE DecodeFrom_onFull(_, _, _, _, _)
DecodeFrom_onFull(chromosome, k, rs, current, inst) ==
  IF k > Len(chromosome)
  THEN IF Len(current.sequence) > 0 THEN Append(rs, current) ELSE rs
  ELSE LET delivery == DeliveryOf(inst, chromosome[k])
       IN  IF current.load + delivery.weight >= inst.vehicles[1].capacity
           THEN DecodeFrom_onFull(chromosome, k + 1,
                                  IF Len(current.sequence) > 0
                                  THEN Append(rs, current) ELSE rs,
                                  [EmptyRoute EXCEPT !.sequence = <<chromosome[k]>>,
                                                     !.load = delivery.weight],
                                  inst)
           ELSE DecodeFrom_onFull(chromosome, k + 1, rs,
                                  [current EXCEPT
                                     !.sequence = Append(current.sequence,
                                                         chromosome[k]),
                                     !.load = current.load + delivery.weight],
                                  inst)

\* the for loop of chromosomeToSolution from gene k on (1-based) and the
\* push of the last route: the routes before vehicles and distances are set
RECURSIVE DecodeFrom(_, _, _, _, _)
DecodeFrom(chromosome, k, rs, current, inst) ==
  IF k > Len(chromosome)
  THEN IF Len(current.sequence) > 0 THEN Append(rs, current) ELSE rs
  ELSE LET delivery == DeliveryOf(inst, chromosome[k])
       IN  IF current.load + delivery.weight > inst.vehicles[1].capacity
           THEN DecodeFrom(chromosome, k + 1,
                           IF Len(current.sequence) > 0
                           THEN Append(rs, current) ELSE rs,
                           [EmptyRoute EXCEPT !.sequence = <<chromosome[k]>>,
                                              !.load = delivery.weight],
                           inst)
           ELSE DecodeFrom(chromosome, k + 1, rs,
                           [current EXCEPT
                              !.sequence = Append(current.sequence, chromosome[k]),
                              !.load = current.load + delivery.weight],
                           inst)

chromosomeToSolution(chromosome, inst) ==
  LET decoded  == DecodeFrom(chromosome, 1, <<>>, EmptyRoute, inst)
      assigned == assignVehicles(decoded, inst.vehicles)
      rs == [k \in 1..Len(assigned) |->
               [assigned[k] EXCEPT
                  !.distance =
                    calculateRouteDistance(getRoutePositions(assigned[k], inst)),
                  !.duration =
                    calculateRouteDuration(getRoutePositions(assigned[k], inst))]]
  IN  [routes |-> rs, objectiveValue |-> calculateObjectiveValue(rs),
       feasible |-> TRUE]

evaluateFitness(chromosome, inst) ==
  chromosomeToSolution(chromosome, inst).objectiveValue

\* the loop for (j = 1; j < tournamentSize; j++) from j on: the 0-based
\* indices that can be bestIndex at its end
RECURSIVE TournamentFrom(_, _, _)
TournamentFrom(fitness, bestIndex, j) ==
  IF j >= tournamentSize THEN {bestIndex}
  ELSE UNION { TournamentFrom(fitness,
                              IF fitness[candidateIndex + 1] < fitness[bestIndex + 1]
                              THEN candidateIndex ELSE bestIndex,
                              j + 1) :
               candidateIndex \in RandomFloor(Len(fitness)) }

\* every array `selected` tournamentSelection can return
tournamentSelection(pop, fitness, size) ==
  LET winners == UNION { TournamentFrom(fitness, bestIndex, 1) :
                         bestIndex \in RandomFloor(Len(pop)) }
  IN  [1..size -> { pop[w + 1] : w \in winners }]

\* index x put behind every index of at most its fitness
RECURSIVE InsertByFitness(_, _, _)
InsertByFitness(sorted, x, fitness) ==
  IF sorted = <<>> THEN <<x>>
  ELSE IF fitness[Head(sorted)] <= fitness[x]
       THEN <<Head(sorted)>> \o InsertByFitness(Tail(sorted), x, fitness)
       ELSE <<x>> \o sorted

\* indexed.sort((a, b) => a.fitness - b.fitness) as the order of the
\* 1-based indices 1 .. n; equal fitness keeps its order
RECURSIVE SortByFitness(_, _)
SortByFitness(n, fitness) ==
  IF n = 0 THEN <<>>
  ELSE InsertByFitness(SortByFitness(n - 1, fitness), n, fitness)

\* selectElite without the sort: the first eliteSize chromosomes
selectElite_unsorted(pop, fitness, eliteSize) ==
  SliceJS(pop, 0, eliteSize)

selectElite(pop, fitness, eliteSize) ==
  LET indexed == SortByFitness(Len(pop), fitness)
  IN  SliceJS([k \in 1..Len(pop) |-> pop[indexed[k]]], 0, eliteSize)

\* the while loop of fillOffspring with the includes test dropped
RECURSIVE FillLoop_noIncludes(_, _, _, _, _)
FillLoop_noIncludes(offspring, parent, parentIndex, offspringIndex, start) ==
  LET size == Len(offspring)
  IN  IF offspringIndex = start THEN offspring
      ELSE FillLoop_noIncludes(
             [offspring EXCEPT ![offspringIndex + 1] = parent[parentIndex + 1]],
             parent, (parentIndex + 1) % size, (offspringIndex + 1) % size, start)

\* the while loop of fillOffspring
RECURSIVE FillLoop(_, _, _, _, _)
FillLoop(offspring, parent, parentIndex, offspringIndex, start) ==
  LET size == Len(offspring)
  IN  IF offspringIndex = start THEN offspring
      ELSE IF parent[parentIndex + 1] \notin Range(offspring)
           THEN FillLoop([offspring EXCEPT
                            ![offspringIndex + 1] = parent[parentIndex + 1]],
                         parent, (parentIndex + 1) % size,
                         (offspringIndex + 1) % size, start)
           ELSE FillLoop(offspring, parent, (parentIndex + 1) % size,
                         offspringIndex, start)

fillOffspring(offspring, parent, start, end) ==
  LET size == Len(offspring)
  IN  FillLoop(offspring, parent, (end + 1) % size, (end + 1) % size, start)

\* crossover with the draws start and end fixed
CrossoverAt(parent1, parent2, start, end) ==
  LET size == Len(parent1)
      copied(parent) == [k \in 1..size |->
                           IF start <= k - 1 /\ k - 1 <= end
                           THEN parent[k] ELSE Hole]
  IN  << fillOffspring(copied(parent1), parent2, start, end),
         fillOffspring(copied(parent2), parent1, start, end) >>

\* every pair crossover can return
crossover(parent1, parent2) ==
  LET size == Len(parent1)
  IN  UNION { { CrossoverAt(parent1, parent2, start, end) :
                  end \in { e + start : e \in RandomFloor(size - start) } } :
              start \in RandomFloor(size) }

\* every chromosome mutate can return
mutate(chromosome) ==
  { SwapJS(chromosome, i, j) : i, j \in RandomFloor(Len(chromosome)) }

-----------------------------------------------------------------------------
(* VRPSolver.solveGenetic: the generation loop *)

\* largest `generations`
MaxGenerations == 2

\* the values of populationSize and of eliteSize
PopulationSizes == 0..2
EliteSizes == 0..2

\* `generations` of the long runs, in which the stagnation limit is met
LongRun == 52

\* the short runs with every choice of the three options, and the long
\* runs of a population of one chromosome that is its own elite
GeneticOptionSets ==
  [populationSize : PopulationSizes, generations : 0..MaxGenerations,
   eliteSize : EliteSizes]
    \cup { [populationSize |-> 1, generations |-> LongRun, eliteSize |-> 1] }

\* with Math.random() < crossoverRate and Math.random() < mutationRate
\* open (both rates strictly between 0 and 1): every pair one iteration of
\* the offspring loop can push for the parents parent1 and parent2
OffspringOf(parent1, parent2) ==
  UNION { { <<offspring1, offspring2>> :
              offspring1 \in {pair[1]} \cup mutate(pair[1]),
              offspring2 \in {pair[2]} \cup mutate(pair[2]) } :
          pair \in crossover(parent1, parent2) \cup {<<parent1, parent2>>} }

\* the while (newPopulation.length < populationSize) loop: every array
\* newPopulation can be at its end.  offspring holds OffspringOf for every
\* pair of chromosomes of the population, worked out once a generation.
RECURSIVE GenerateOffspring(_, _, _, _)
GenerateOffspring(newPopulation, parents, size, offspring) ==
  IF ~(Len(newPopulation) < size) THEN {newPopulation}
  ELSE UNION { GenerateOffspring(newPopulation \o pair, parents, size, offspring) :
               pair \in UNION { (CHOOSE e \in offspring :
                                   e[1] = <<parents[a + 1], parents[b + 1]>>)[2] :
                                a \in RandomFloor(Len(parents)),
                                b \in RandomFloor(Len(parents)) } }

\* lines 201-234: every population the next generation can start from
NextPopulations(pop, fitness, opts) ==
  LET elite == selectElite(pop, fitness, opts.eliteSize)
  IN  UNION {
        { SliceJS(newPopulation, 0, opts.populationSize) :
            newPopulation \in
              UNION { GenerateOffspring(elite, parents, opts.populationSize,
                                        offspring) :
                      parents \in tournamentSelection(pop, fitness,
                                                      opts.populationSize) } } :
        offspring \in { { <<pp, OffspringOf(pp[1], pp[2])>> :
                            pp \in Range(pop) \X Range(pop) } } }

\* the best tracking that takes the generation's best whatever it costs
TrackBest_always(best, stagnation, currentBest, currentSolution) ==
  [best |-> <<currentSolution>>, stagnation |-> 0]

\* lines 189-194
TrackBest(best, stagnation, currentBest, currentSolution) ==
  IF best = <<>> \/ currentBest < best[1].objectiveValue
  THEN [best |-> <<currentSolution>>, stagnation |-> 0]
  ELSE [best |-> best, stagnation |-> stagnation + 1]

\* the early termination test that never holds
StagnationReached_never(counter) == FALSE

\* stagnationCounter >= maxStagnation (line 197)
StagnationReached(counter) == counter >= maxStagnation

\* Math.min(...fitness) of a non-empty array
MinOf(fitness) ==
  CHOOSE m \in Range(fitness) : \A f \in Range(fitness) : m <= f

\* one iteration of for (generation ...).  An empty population makes
\* bestIndex -1 and chromosomeToSolution(undefined) throw a TypeError.
GAGeneration ==
  /\ vrpPc = "ga" /\ generation < options.generations
  /\ IF population = <<>>
     THEN /\ vrpPc' = "error"
          /\ UNCHANGED <<population, bestSolution, stagnationCounter,
                         generation, minFitness>>
     ELSE \E fitness \in { [k \in 1..Len(population) |->
                              evaluateFitness(population[k], instance)] } :
            LET currentBest == MinOf(fitness)
                bestIndex   == FindFirst(fitness, LAMBDA f : f = currentBest)
                currentSolution ==
                  chromosomeToSolution(population[bestIndex], instance)
            IN  \E t \in { TrackBest(bestSolution, stagnationCounter,
                                     currentBest, currentSolution) } :
                  /\ bestSolution' = t.best
                  /\ stagnationCounter' = t.stagnation
                  /\ minFitness' = Min2(minFitness, currentBest)
                  /\ IF StagnationReached(t.stagnation)
                     THEN /\ vrpPc' = "break"
                          /\ UNCHANGED <<population, generation>>
                     ELSE /\ population' \in
                               NextPopulations(population, fitness, options)
                          /\ generation' = generation + 1
                          /\ vrpPc' = vrpPc
  /\ UNCHANGED <<alg, instance, options, savings, savingIdx, routes, vrpResult,
                 lsVars, asVars, optVars, unitVars>>

\* lines 237-244
GAReturn ==
  /\ \/ vrpPc = "ga" /\ ~(generation < options.generations)
     \/ vrpPc = "break"
  /\ vrpResult' = IF bestSolution # <<>> THEN bestSolution[1]
                  ELSE [routes |-> <<>>, objectiveValue |-> Infinity,
                        feasible |-> FALSE]
  /\ vrpPc' = "returned"
  /\ UNCHANGED <<alg, instance, options, savings, savingIdx, routes, population,
                 bestSolution, stagnationCounter, generation, minFitness,
                 lsVars, asVars, optVars, unitVars>>

\* the state after step 3 of solveClarkeWright, or after initializePopulation
\* in solveGenetic.  The genetic solver looks deliveries up by id and
\* shuffles them first, so it is given them in the order of their ids, and
\* all of one weight.
InitVRP ==
  /\ IdleLS /\ IdleAStar /\ IdleOpt /\ IdleDec /\ IdleFleet /\ IdleTracker
  /\ alg \in {"cw", "ga"}
  /\ instance \in Instances
  /\ vrpResult = <<>>
  /\ bestSolution = <<>> /\ stagnationCounter = 0 /\ generation = 0
  /\ minFitness = Infinity
  /\ IF alg = "cw"
     THEN /\ options = <<>>
          /\ savings = SortSavings(calculateSavings(instance))
          /\ savingIdx = 0
          /\ routes = InitialRoutes(instance)
          /\ population = <<>>
          /\ vrpPc = "merge"
     ELSE /\ \A k \in 1..Len(instance.deliveries) :
               /\ instance.deliveries[k].id = k
               /\ instance.deliveries[k].weight = instance.deliveries[1].weight
          /\ options \in GeneticOptionSets
          /\ savings = <<>> /\ savingIdx = 0 /\ routes = <<>>
          /\ population \in initializePopulation(instance, options.populationSize)
          /\ vrpPc = "ga"

NextVRP == CWMerge \/ CWReturn \/ GAGeneration \/ GAReturn

SpecVRP == InitVRP /\ [][NextVRP]_vars

-----------------------------------------------------------------------------
(* VRPSolver.chromosomeToSolution on its own *)

\* a call of chromosomeToSolution with a chromosome as initializePopulation
\* and the genetic operators build them: the delivery ids in some order
InitDecode ==
  /\ IdleLS /\ IdleAStar /\ IdleVRP /\ IdleOpt /\ IdleFleet /\ IdleTracker
  /\ decInstance \in Instances
  /\ decChromosome \in
       ShuffleFrom([k \in 1..Len(decInstance.deliveries) |->
                      decInstance.deliveries[k].id],
                   Len(decInstance.deliveries) - 1)
  /\ decPc = "call"
  /\ decSolution = <<>>

\* chromosomeToSolution(chromosome, instance)
Decode ==
  /\ decPc = "call"
  /\ decSolution' = chromosomeToSolution(decChromosome, decInstance)
  /\ decPc' = "returned"
  /\ UNCHANGED <<decInstance, decChromosome, lsVars, asVars, vrpVars, optVars,
                 fmVars, rtVars>>

NextDecode == Decode

SpecDecode == InitDecode /\ [][NextDecode]_vars

-----------------------------------------------------------------------------
(* Properties of the VRP constructors *)

\* total weight of the deliveries with the ids in sequence
RECURSIVE LoadOf(_, _)
LoadOf(sequence, inst) ==
  IF sequence = <<>> THEN 0
  ELSE DeliveryOf(inst, Head(sequence)).weight + LoadOf(Tail(sequence), inst)

\* the places (route, position) at which delivery id d stands in the routes rs
PlacesOf(d, rs) ==
  { <<k, x>> \in (1..Len(rs)) \X (1..Len(DeliverySites)) :
      x <= Len(rs[k].sequence) /\ rs[k].sequence[x] = d }

DeliveryIds(inst) == { inst.deliveries[k].id : k \in 1..Len(inst.deliveries) }

\* C1: in a returned solution every route that names a vehicle of the
\* instance carries at most that vehicle's capacity, the load being the
\* total weight of the deliveries in the route's sequence.
C1_Capacity ==
  vrpPc = "returned" =>
    \A k \in 1..Len(vrpResult.routes) :
      LET r == vrpResult.routes[k]
      IN  /\ r.load = LoadOf(r.sequence, instance)
          /\ \A v \in 1..Len(instance.vehicles) :
               instance.vehicles[v].id = r.vehicleId =>
                 LoadOf(r.sequence, instance) <= instance.vehicles[v].capacity

\* a returned solution with a route that fills its vehicle to capacity and a
\* route left without a vehicle
C1_Witness ==
  /\ vrpPc = "returned"
  /\ \E k \in 1..Len(vrpResult.routes), v \in 1..Len(instance.vehicles) :
       /\ vrpResult.routes[k].vehicleId = instance.vehicles[v].id
       /\ vrpResult.routes[k].load = instance.vehicles[v].capacity
  /\ \E k \in 1..Len(vrpResult.routes) :
       vrpResult.routes[k].vehicleId = NoVehicle

\* C2 as stated: when an active vehicle holds the weight of all deliveries,
\* solveClarkeWright returns one route and it contains every delivery.
C2_SingleRoute ==
  ( /\ alg = "cw" /\ vrpPc = "returned"
    /\ \E v \in 1..Len(instance.vehicles) :
         /\ instance.vehicles[v].status = "active"
         /\ instance.vehicles[v].capacity
              >= LoadOf([k \in 1..Len(instance.deliveries) |->
                           instance.deliveries[k].id], instance) )
  => /\ Len(vrpResult.routes) = 1
     /\ Range(vrpResult.routes[1].sequence) = DeliveryIds(instance)

\* C3: the route sequences of a solution returned by solveClarkeWright, or
\* by solveGenetic with populationSize >= 1 and generations >= 1, hold every
\* delivery id of the instance exactly once and nothing else; so does every
\* chromosome of the genetic population.
C3_Partition ==
  /\ \A c \in 1..Len(population) :
       /\ Len(population[c]) = Len(instance.deliveries)
       /\ Range(population[c]) = DeliveryIds(instance)
  /\ ( /\ vrpPc = "returned"
       /\ alg = "ga" => options.populationSize >= 1 /\ options.generations >= 1 )
     => /\ \A d \in DeliveryIds(instance) :
             Cardinality(PlacesOf(d, vrpResult.routes)) = 1
        /\ \A k \in 1..Len(vrpResult.routes) :
             Range(vrpResult.routes[k].sequence) \subseteq DeliveryIds(instance)

\* the genetic solver returned, in two routes or more, a solution it first
\* met in its second or a later generation, bred by crossover and mutation
C3_Witness ==
  /\ alg = "ga" /\ vrpPc = "returned"
  /\ generation >= 2 /\ stagnationCounter = 0
  /\ options.populationSize = 2
  /\ Len(vrpResult.routes) >= 2

\* objectiveValue of bestSolution, Infinity while it is null
BestObjective ==
  IF bestSolution = <<>> THEN Infinity ELSE bestSolution[1].objectiveValue

\* C9: the objective of the best solution, and of the returned one, is at
\* most every fitness evaluated so far in the run, and the best objective
\* never goes up from one generation to the next.
C9_BestSoFar ==
  /\ [](alg = "ga" =>
          /\ BestObjective <= minFitness
          /\ vrpPc = "returned" => vrpResult.objectiveValue <= minFitness)
  /\ [][alg = "ga" => BestObjective' <= BestObjective]_vars

\* the generation about to be evaluated is strictly worse than the best
\* solution of the generations before it
C9_Witness ==
  /\ alg = "ga" /\ vrpPc = "ga"
  /\ generation >= 1 /\ generation < options.generations
  /\ population # <<>>
  /\ \A c \in 1..Len(population) :
       evaluateFitness(population[c], instance) > BestObjective

\* some delivery of the instance weighs more than every vehicle holds
Overweight(inst) ==
  \E k \in 1..Len(inst.deliveries) :
    \A v \in 1..Len(inst.vehicles) :
      inst.deliveries[k].weight > inst.vehicles[v].capacity

\* C11 as stated, for the calls that return: when some delivery weighs more
\* than the capacity of every vehicle, the solution solveClarkeWright or
\* solveGenetic returns has feasible = false.
C11_InfeasibleFlag ==
  (vrpPc = "returned" /\ Overweight(instance)) => vrpResult.feasible = FALSE

\* C16 as stated: with populationSize = 0, solveGenetic ends by returning,
\* not by an exception, and returns no routes, feasible = false and the
\* Infinity objective value.
C16_EmptyPopulation ==
  ( /\ alg = "ga" /\ options.populationSize = 0
    /\ vrpPc \in {"returned", "error"} )
  => /\ vrpPc = "returned"
     /\ vrpResult.routes = <<>>
     /\ vrpResult.feasible = FALSE
     /\ vrpResult.objectiveValue = Infinity

\* the active vehicles (1-based indices) that hold the load of route k and
\* that assignVehicles, going from the routes before to the routes after, has
\* not handed to a route ahead of k
StillAvailable(before, after, k, inst) ==
  { w \in 1..Len(inst.vehicles) :
      /\ inst.vehicles[w].status = "active"
      /\ inst.vehicles[w].capacity >= before[k].load
      /\ \A j \in 1..(k - 1) :
           before[j].vehicleId = NoVehicle =>
             after[j].vehicleId # inst.vehicles[w].id }

\* C18 as stated: in the step that ends the merge phase, every route that
\* has no vehicle and for which some still-available active vehicle holds
\* its load is given, among those vehicles, one of the smallest capacity.
C18_SmallestFit ==
  [][ (alg = "cw" /\ vrpPc = "merge" /\ vrpPc' = "returned") =>
        \A k \in 1..Len(routes) :
          (routes[k].vehicleId = NoVehicle
             /\ StillAvailable(routes, routes', k, instance) # {})
          => \E v \in StillAvailable(routes, routes', k, instance) :
               /\ routes'[k].vehicleId = instance.vehicles[v].id
               /\ \A w \in StillAvailable(routes, routes', k, instance) :
                    instance.vehicles[v].capacity
                      <= instance.vehicles[w].capacity ]_vars

\* C12 as stated, for solveClarkeWright, which validates what it returns:
\* a returned solution for which validateSolution reports a violation has an
\* objectiveValue strictly above the sum of its routes' distances.
C12_Penalty ==
  ( /\ alg = "cw" /\ vrpPc = "returned"
    /\ validateSolution(vrpResult.routes, instance) # <<>> )
  => vrpResult.objectiveValue > TotalDistance(vrpResult.routes)

\* the steps solveGenetic has left at most: two for every generation not
\* yet run, one from the break to the return
StepsLeft ==
  2 * (options.generations - generation)
    + (IF vrpPc = "ga" THEN 2 ELSE IF vrpPc = "break" THEN 1 ELSE 0)

\* C22: solveGenetic ends, by returning or by throwing: a generation of a
\* population that is not empty has a next population, and every step
\* brings the call nearer to its end; the
\* generation counter never passes `generations`; the count of consecutive generations
\* without a strictly better best objective never passes 50, and the loop is
\* left in the generation in which it reaches 50; with populationSize = 1
\* and generations = 1 nothing is thrown and the solution returned is the
\* decoding of the one initial chromosome.
C22_Terminates ==
  /\ [](alg = "ga" =>
          /\ (vrpPc = "ga" /\ generation < options.generations
                       /\ population # <<>>
                => NextPopulations(population,
                                   [k \in 1..Len(population) |->
                                      evaluateFitness(population[k], instance)],
                                   options) # {})
          /\ generation <= options.generations
          /\ stagnationCounter <= maxStagnation
          /\ (stagnationCounter = maxStagnation => vrpPc \in {"break", "returned"})
          /\ (vrpPc = "break" => stagnationCounter = maxStagnation)
          /\ (vrpPc = "returned" /\ bestSolution # <<>>
                => vrpResult = bestSolution[1])
          /\ (options.populationSize = 1 /\ options.generations = 1
                => vrpPc # "error"))
  /\ [][ ( /\ alg = "ga" /\ options.populationSize = 1
           /\ options.generations = 1 /\ generation' # generation )
         => bestSolution' = << chromosomeToSolution(population[1], instance) >> ]_vars
  /\ [][alg = "ga" => StepsLeft' < StepsLeft]_vars

\* the loop was left by the stagnation test before `generations`
\* generations were run
C22_Witness ==
  /\ alg = "ga" /\ vrpPc = "returned"
  /\ stagnationCounter = maxStagnation
  /\ generation < options.generations

\* the `fitness` array of the population pop
FitnessOf(pop) == [k \in 1..Len(pop) |-> evaluateFitness(pop[k], instance)]

\* C24: in a generation with eliteSize <= populationSize that builds a next
\* population, eliteSize chromosomes of the population that no other one
\* beats in fitness each have a place of their own in the next population;
\* with eliteSize >= 1 the least fitness of the next population is at most
\* that of the population.
C24_Elitism ==
  [][ ( /\ alg = "ga" /\ generation' = generation + 1
        /\ options.eliteSize <= options.populationSize )
      => /\ \E E \in SUBSET (1..Len(population)) :
              /\ Cardinality(E) = options.eliteSize
              /\ \A a \in E : \A b \in (1..Len(population)) \ E :
                   FitnessOf(population)[a] <= FitnessOf(population)[b]
              /\ \E f \in [E -> 1..Len(population')] :
                   /\ \A a, b \in E : a # b => f[a] # f[b]
                   /\ \A a \in E : population'[f[a]] = population[a]
         /\ options.eliteSize >= 1 =>
              MinOf(FitnessOf(population')) <= MinOf(FitnessOf(population)) ]_vars

\* after a generation with an elite of one in a population of two, the
\* chromosome kept is strictly better than the one bred
C24_Witness ==
  /\ alg = "ga" /\ vrpPc = "ga" /\ generation >= 1
  /\ options.eliteSize = 1 /\ options.populationSize = 2
  /\ FitnessOf(population)[1] < FitnessOf(population)[2]

\* the sequences of the routes rs put one behind the other
RECURSIVE JoinedSequences(_)
JoinedSequences(rs) ==
  IF rs = <<>> THEN <<>> ELSE Head(rs).sequence \o JoinedSequences(Tail(rs))

\* the 1-based positions of the chromosome at which the routes rs begin
RouteStarts(rs) ==
  { Len(JoinedSequences(SubSeq(rs, 1, k - 1))) + 1 : k \in 1..Len(rs) }

\* the load the decoder carries on its current route before it looks at
\* position p of the chromosome c: the weights from the last route start on
LoadBefore(c, p, starts, inst) ==
  LET from == CHOOSE x \in starts :
                /\ x < p
                /\ \A y \in starts : y < p => y <= x
  IN  LoadOf(SubSeq(c, from, p - 1), inst)

\* C23: the decoded routes' sequences, one behind the other, are the
\* chromosome; no decoded route has an empty sequence; and a route begins
\* at a delivery after the first exactly when the load of the route before
\* it plus that delivery's weight exceeds the capacity of vehicles[0].
C23_Decoder ==
  decPc = "returned" =>
    LET rs     == decSolution.routes
        starts == RouteStarts(rs)
        cap    == decInstance.vehicles[1].capacity
    IN  /\ JoinedSequences(rs) = decChromosome
        /\ \A k \in 1..Len(rs) : rs[k].sequence # <<>>
        /\ \A p \in 2..Len(decChromosome) :
             (p \in starts) <=>
               ( LoadBefore(decChromosome, p, starts, decInstance)
                   + DeliveryOf(decInstance, decChromosome[p]).weight > cap )

\* a chromosome of three deliveries was cut into a route of two, which
\* fill the reference vehicle exactly, and a route of one
C23_Witness ==
  /\ decPc = "returned"
  /\ Len(decSolution.routes) = 2
  /\ Len(decSolution.routes[1].sequence) = 2
  /\ decSolution.routes[1].load = decInstance.vehicles[1].capacity

-----------------------------------------------------------------------------
(* AdvancedRouteOptimizer.optimizeRoutes *)

\* Delivery.priority
Priorities == {"low", "medium", "high", "urgent"}

\* const priorityOrder = { urgent: 4, high: 3, medium: 2, low: 1 }
priorityOrder ==
  [pr \in Priorities |->
     CASE pr = "urgent" -> 4 [] pr = "high" -> 3 [] pr = "medium" -> 2
       [] pr = "low" -> 1]

\* Vehicle.status, as far as validateAndPreprocess tells the values apart
VehicleStatuses == {"active", "idle", "maintenance"}

\* the vehicle lists handed to optimizeRoutes: none, one or two vehicles
VehicleLists ==
  UNION { { [k \in 1..n |-> Vehicle(k, 6, st[k])] :
              st \in [1..n -> VehicleStatuses] } :
          n \in 0..Len(VehicleIds) }

\* the delivery lists handed to optimizeRoutes: the first n sites, n from 0
\* on, each delivery with any priority
PriorityDeliveryLists ==
  UNION { { [k \in 1..n |-> [id |-> k, position |-> DeliverySites[k],
                             weight |-> 1, priority |-> pr[k]]] :
              pr \in [1..n -> Priorities] } :
          n \in 0..Len(DeliverySites) }

\* the depot of every call
OptDepot == <<0, 0>>

\* validateAndPreprocess with the test of the delivery list left out
validationError_vehiclesOnly(vehicles, deliveries) ==
  IF Len(vehicles) = 0 THEN "No vehicles available"
  ELSE IF Len(SelectSeq(vehicles,
                        LAMBDA v : v.status = "active" \/ v.status = "idle")) = 0
       THEN "No available vehicles for routing"
       ELSE ""

\* the message of the Error validateAndPreprocess throws (lines 181-191),
\* "" when it throws none
validationError(vehicles, deliveries) ==
  IF Len(vehicles) = 0 THEN "No vehicles available"
  ELSE IF Len(deliveries) = 0 THEN "No deliveries to optimize"
  ELSE IF Len(SelectSeq(vehicles,
                        LAMBDA v : v.status = "active" \/ v.status = "idle")) = 0
       THEN "No available vehicles for routing"
       ELSE ""

\* x put behind every delivery of at least its priority
RECURSIVE InsertByPriority(_, _)
InsertByPriority(sorted, x) ==
  IF sorted = <<>> THEN <<x>>
  ELSE IF priorityOrder[Head(sorted).priority] >= priorityOrder[x.priority]
       THEN <<Head(sorted)>> \o InsertByPriority(Tail(sorted), x)
       ELSE <<x>> \o sorted

\* deliveries.sort((a, b) => priorityOrder[b.priority] -
\* priorityOrder[a.priority]): the array after the call, highest priority
\* first, equal priorities in their old order (the sort is stable)
RECURSIVE SortByPriority(_)
SortByPriority(deliveries) ==
  IF deliveries = <<>> THEN <<>>
  ELSE InsertByPriority(
         SortByPriority(SubSeq(deliveries, 1, Len(deliveries) - 1)),
         deliveries[Len(deliveries)])

calculateDistanceMatrix(positions) ==
  [i \in 1..Len(positions) |->
     [j \in 1..Len(positions) |->
        IF i = j THEN 0 ELSE calculateDistance(positions[i], positions[j])]]

\* (distance / averageSpeed) * 60 with averageSpeed = 50, in thousandths of
\* a minute
calculateTimeMatrix(distanceMatrix) ==
  [i \in 1..Len(distanceMatrix) |->
     [j \in 1..Len(distanceMatrix[i]) |-> (distanceMatrix[i][j] * 60) \div 50]]

\* no delivery of the model has a timeWindow
selectOptimalAlgorithm(data) ==
  LET deliveryCount  == Len(data.deliveries)
      vehicleCount   == Len(data.vehicles)
      hasTimeWindows == FALSE
  IN  IF deliveryCount <= 20 /\ vehicleCount <= 5 THEN "clarke_wright"
      ELSE IF deliveryCount <= 100 /\ ~hasTimeWindows THEN "clarke_wright"
      ELSE IF deliveryCount <= 200 THEN "genetic"
      ELSE "hybrid"

\* the VRPSolver methods step 3 invokes for an algorithm, in order
SolverCallsOf(algorithm) ==
  CASE algorithm = "genetic" -> <<"solveGenetic">>
    [] algorithm = "hybrid" -> <<"solveClarkeWright", "solveGenetic">>
    [] OTHER -> <<"solveClarkeWright">>

\* the result convertVRPToOptimizationResult builds whatever the solver
\* returned (computationTime, a clock reading, is left out)
convertVRPToOptimizationResult ==
  [routes |-> <<>>,
   unassignedDeliveries |-> <<>>,
   statistics |-> [totalDistance |-> 0, totalDuration |-> 0, totalCost |-> 0,
                   constraintViolations |-> <<>>],
   metadata |-> [algorithm |-> "placeholder", iterations |-> 0,
                 convergence |-> TRUE]]

\* optimizeRoutes is called: nothing has run yet
InitOpt ==
  /\ IdleLS /\ IdleAStar /\ IdleVRP /\ IdleDec /\ IdleFleet /\ IdleTracker
  /\ optVehicles \in VehicleLists
  /\ optDeliveries \in PriorityDeliveryLists
  /\ validatedData = <<>>
  /\ solverCalls = <<>>
  /\ optPc = "call"
  /\ optResult = <<>>
  /\ optError = ""

\* step 1 throws: the catch clause wraps the message and the call is rejected
OptValidateFail ==
  /\ optPc = "call"
  /\ validationError(optVehicles, optDeliveries) # ""
  /\ optError' = "Route optimization failed: "
                   \o validationError(optVehicles, optDeliveries)
  /\ optPc' = "error"
  /\ UNCHANGED <<optVehicles, optDeliveries, validatedData, solverCalls,
                 optResult, lsVars, asVars, vrpVars, unitVars>>

\* step 1 returns (lines 184-209): the caller's delivery array is sorted
\* where it stands, and the matrices are built from the sorted array
OptValidate ==
  /\ optPc = "call"
  /\ validationError(optVehicles, optDeliveries) = ""
  /\ \E sortedDeliveries \in {SortByPriority(optDeliveries)} :
       /\ optDeliveries' = sortedDeliveries
       /\ \E distanceMatrix \in
               { calculateDistanceMatrix(
                   <<OptDepot>> \o [k \in 1..Len(sortedDeliveries) |->
                                      sortedDeliveries[k].position]) } :
            validatedData' =
              [vehicles |-> SelectSeq(optVehicles,
                              LAMBDA v : v.status = "active" \/ v.status = "idle"),
               deliveries |-> sortedDeliveries,
               depot |-> OptDepot,
               distanceMatrix |-> distanceMatrix,
               timeMatrix |-> calculateTimeMatrix(distanceMatrix)]
  /\ optPc' = "validated"
  /\ UNCHANGED <<optVehicles, solverCalls, optResult, optError,
                 lsVars, asVars, vrpVars, unitVars>>

\* steps 2 and 3: the algorithm is chosen and run on validatedData, and its
\* solution converted
OptSolve ==
  /\ optPc = "validated"
  /\ solverCalls' = solverCalls \o SolverCallsOf(selectOptimalAlgorithm(validatedData))
  /\ optResult' = convertVRPToOptimizationResult
  /\ optPc' = "optimized"
  /\ UNCHANGED <<optVehicles, optDeliveries, validatedData, optError,
                 lsVars, asVars, vrpVars, unitVars>>

\* steps 4 and 5, which return their argument, the metadata and the return
OptReturn ==
  /\ optPc = "optimized"
  /\ optResult' = [optResult EXCEPT
                     !.metadata.algorithm = selectOptimalAlgorithm(validatedData)]
  /\ optPc' = "returned"
  /\ UNCHANGED <<optVehicles, optDeliveries, validatedData, solverCalls,
                 optError, lsVars, asVars, vrpVars, unitVars>>

NextOpt == OptValidateFail \/ OptValidate \/ OptSolve \/ OptReturn

SpecOpt == InitOpt /\ [][NextOpt]_vars

-----------------------------------------------------------------------------
(* Properties of optimizeRoutes *)

\* C13: once optimizeRoutes has got past its first step with an empty
\* vehicle list or an empty delivery list, it has been rejected with an
\* error, no distance matrix was built, no solver method was invoked and
\* there is no result, partial or whole.
C13_FailFast ==
  (optPc \notin {"none", "call"} /\ (optVehicles = <<>> \/ optDeliveries = <<>>))
  => /\ optPc = "error"
     /\ optError # ""
     /\ validatedData = <<>>
     /\ solverCalls = <<>>
     /\ optResult = <<>>

\* a call with vehicles and no delivery was rejected
C13_Witness ==
  /\ optPc = "error"
  /\ optVehicles # <<>> /\ optDeliveries = <<>>
  /\ optError = "Route optimization failed: No deliveries to optimize"

\* C14 as stated, for optimizeRoutes: no step of the call changes the
\* caller's vehicle list or delivery list.
C14_InputsUnchanged ==
  [][optVehicles' = optVehicles /\ optDeliveries' = optDeliveries]_vars

-----------------------------------------------------------------------------
(* FleetManager *)

\* the vehicles addVehicle is called with: either id, a capacity of one or
\* two, any status of the Vehicle type
FleetVehicles ==
  [id : {"v1", "v2"}, capacity : {1, 2},
   status : {"active", "idle", "maintenance", "out_of_service"}]

\* the routes startRouteExecution is called with; deliveries holds the
\* weights of the route's deliveries
FleetRoutes ==
  [id : {"r1", "r2"}, vehicleId : {"v1", "v2"}, deliveries : {<<1>>, <<1, 1>>}]

\* type EmergencyType
EmergencyTypes == {"breakdown", "accident", "fuel_low", "traffic_jam", "off_route"}

\* Map.prototype.set(entry.id, entry) on a map held in insertion order
MapSet(m, entry) ==
  IF \E k \in 1..Len(m) : m[k].id = entry.id
  THEN [k \in 1..Len(m) |-> IF m[k].id = entry.id THEN entry ELSE m[k]]
  ELSE Append(m, entry)

\* Map.prototype.delete(id)
MapDelete(m, id) == SelectSeq(m, LAMBDA e : e.id # id)

\* Map.prototype.has(id)
MapHas(m, id) == \E k \in 1..Len(m) : m[k].id = id

\* Map.prototype.get(id) for a key the map has
MapGet(m, id) == m[CHOOSE k \in 1..Len(m) : m[k].id = id]

\* vehicle.status = status on the tracked vehicle id, if there is one
SetStatus(vehicles, id, status) ==
  [k \in 1..Len(vehicles) |->
     IF vehicles[k].id = id THEN [vehicles[k] EXCEPT !.status = status]
     ELSE vehicles[k]]

\* deliveries.reduce((sum, d) => sum + d.weight, 0)
RECURSIVE TotalWeight(_)
TotalWeight(deliveries) ==
  IF deliveries = <<>> THEN 0
  ELSE Head(deliveries) + TotalWeight(Tail(deliveries))

\* findAvailableVehicle: 1-based index of the first idle vehicle that holds
\* the deliveries, 0 for null
findAvailableVehicle(vehicles, deliveries) ==
  LET fit == { k \in 1..Len(vehicles) :
                 /\ vehicles[k].status = "idle"
                 /\ vehicles[k].capacity >= TotalWeight(deliveries) }
  IN  IF fit = {} THEN 0 ELSE CHOOSE k \in fit : \A k2 \in fit : k <= k2

\* the for loop of reassignVehicleRoutes over routesToReassign: the active
\* routes afterwards.  The function has no await, so the call made by
\* handleEmergency runs it to its end.
RECURSIVE ReassignLoop(_, _, _)
ReassignLoop(routesToReassign, active, vehicles) ==
  IF routesToReassign = <<>> THEN active
  ELSE LET r == Head(routesToReassign)
           availableVehicle == findAvailableVehicle(vehicles, r.deliveries)
       IN  ReassignLoop(Tail(routesToReassign),
                        IF availableVehicle # 0
                        THEN MapSet(active,
                               [r EXCEPT !.vehicleId = vehicles[availableVehicle].id])
                        ELSE MapDelete(active, r.id),
                        vehicles)

reassignVehicleRoutes(vehicleId, active, vehicles) ==
  ReassignLoop(SelectSeq(active, LAMBDA r : r.vehicleId = vehicleId),
               active, vehicles)

\* a fleet manager as constructed
InitFleet ==
  /\ IdleLS /\ IdleAStar /\ IdleVRP /\ IdleOpt /\ IdleDec /\ IdleTracker
  /\ fmVehicles = <<>>
  /\ fmRoutes = <<>>
  /\ fmCall = <<>>

addVehicle ==
  /\ \E vehicle \in FleetVehicles :
       /\ fmVehicles' = MapSet(fmVehicles, vehicle)
       /\ fmCall' = [method |-> "addVehicle", id |-> vehicle.id, type |-> ""]
  /\ UNCHANGED <<fmRoutes, lsVars, asVars, vrpVars, optVars, decVars, rtVars>>

startRouteExecution ==
  /\ \E r \in FleetRoutes :
       /\ fmRoutes' = MapSet(fmRoutes, r)
       /\ fmVehicles' = SetStatus(fmVehicles, r.vehicleId, "active")
       /\ fmCall' = [method |-> "startRouteExecution", id |-> r.id, type |-> ""]
  /\ UNCHANGED <<lsVars, asVars, vrpVars, optVars, decVars, rtVars>>

completeRoute ==
  /\ \E routeId \in {"r1", "r2"} :
       /\ IF MapHas(fmRoutes, routeId)
          THEN /\ fmRoutes' = MapDelete(fmRoutes, routeId)
               /\ fmVehicles' = SetStatus(fmVehicles,
                                          MapGet(fmRoutes, routeId).vehicleId, "idle")
          ELSE UNCHANGED <<fmRoutes, fmVehicles>>
       /\ fmCall' = [method |-> "completeRoute", id |-> routeId, type |-> ""]
  /\ UNCHANGED <<lsVars, asVars, vrpVars, optVars, decVars, rtVars>>

handleEmergency ==
  /\ \E vehicleId \in {"v1", "v2"}, emergencyType \in EmergencyTypes :
       /\ IF MapHas(fmVehicles, vehicleId)
             /\ emergencyType \in {"breakdown", "accident"}
          THEN \E marked \in { SetStatus(fmVehicles, vehicleId, "out_of_service") } :
                 /\ fmVehicles' = marked
                 /\ fmRoutes' = reassignVehicleRoutes(vehicleId, fmRoutes, marked)
          ELSE UNCHANGED <<fmRoutes, fmVehicles>>
       /\ fmCall' = [method |-> "handleEmergency", id |-> vehicleId,
                     type |-> emergencyType]
  /\ UNCHANGED <<lsVars, asVars, vrpVars, optVars, decVars, rtVars>>

NextFleet == addVehicle \/ startRouteExecution \/ completeRoute \/ handleEmergency

SpecFleet == InitFleet /\ [][NextFleet]_vars

-----------------------------------------------------------------------------
(* Properties of the fleet manager *)

\* the tracked vehicles that are out of service
OutOfService ==
  { fmVehicles[k].id : k \in { k \in 1..Len(fmVehicles) :
                                 fmVehicles[k].status = "out_of_service" } }

\* C28 as stated: no active route is assigned to a tracked vehicle that is
\* out of service.
C28_NoRouteOutOfService ==
  \A k \in 1..Len(fmRoutes) : fmRoutes[k].vehicleId \notin OutOfService

-----------------------------------------------------------------------------
(* RealTimeTracker: the connection *)

\* most WebSockets one tracker creates
MaxSockets == 3

\* private maxReconnectAttempts: number = 5
maxReconnectAttempts == 5

\* The readyState of a WebSocket: "connecting", "open", "closing" after
\* close() on an open socket (its close event has code 1000), "aborting"
\* after close() on a connecting socket (the connection fails and its close
\* event has code 1006), "closed" once the close event was delivered.
\* Every socket keeps the handlers connect() bound to it, whatever
\* this.websocket holds later.

\* a tracker as constructed
InitTracker ==
  /\ IdleLS /\ IdleAStar /\ IdleVRP /\ IdleOpt /\ IdleDec /\ IdleFleet
  /\ rtSockets = <<>>
  /\ websocket = 0
  /\ reconnectAttempts = 0
  /\ rtTimers = 0
  /\ rtHeartbeats = {}
  /\ heartbeatInterval = 0
  /\ rtDisconnected = FALSE

\* the body of connect() (lines 39-52): a new WebSocket with the four
\* handlers, and startHeartbeat(), which stores the id of a new interval
\* timer over the one it held
ConnectBody ==
  /\ rtSockets' = Append(rtSockets, "connecting")
  /\ websocket' = Len(rtSockets) + 1
  /\ rtHeartbeats' = rtHeartbeats \cup {Len(rtSockets) + 1}
  /\ heartbeatInterval' = Len(rtSockets) + 1

\* the client calls connect()
connect ==
  /\ Len(rtSockets) < MaxSockets
  /\ ConnectBody
  /\ rtDisconnected' = FALSE
  /\ UNCHANGED <<reconnectAttempts, rtTimers,
                 lsVars, asVars, vrpVars, optVars, decVars, fmVars>>

\* WebSocket.close(1000, 'Client disconnect') on a socket of readyState st
CloseSocket(st) ==
  CASE st = "connecting" -> "aborting"
    [] st = "open"       -> "closing"
    [] OTHER             -> st

\* the client calls disconnect(): close and drop this.websocket if there is
\* one, stopHeartbeat()
disconnect ==
  /\ IF websocket # 0
     THEN rtSockets' = [rtSockets EXCEPT ![websocket] = CloseSocket(@)]
     ELSE UNCHANGED rtSockets
  /\ websocket' = 0
  /\ rtHeartbeats' = rtHeartbeats \ {heartbeatInterval}
  /\ heartbeatInterval' = 0
  /\ rtDisconnected' = TRUE
  /\ UNCHANGED <<reconnectAttempts, rtTimers,
                 lsVars, asVars, vrpVars, optVars, decVars, fmVars>>

\* the open event of a socket: handleWebSocketOpen
handleWebSocketOpen ==
  /\ \E k \in 1..Len(rtSockets) :
       /\ rtSockets[k] = "connecting"
       /\ rtSockets' = [rtSockets EXCEPT ![k] = "open"]
  /\ reconnectAttempts' = 0
  /\ UNCHANGED <<websocket, rtTimers, rtHeartbeats, heartbeatInterval,
                 rtDisconnected, lsVars, asVars, vrpVars, optVars, decVars, fmVars>>

\* the close codes the close event of a socket of readyState st can carry:
\* 1006 when the connection is lost or fails, 1000 when it is closed in
\* order by the server or by close()
CloseCodes(st) ==
  CASE st = "connecting" -> {1006}
    [] st = "open"       -> {1000, 1006}
    [] st = "closing"    -> {1000}
    [] st = "aborting"   -> {1006}
    [] OTHER             -> {}

\* the close event of a socket: handleWebSocketClose, which sets a reconnect
\* timer after a close that was not clean
handleWebSocketClose ==
  /\ \E k \in 1..Len(rtSockets) : \E code \in CloseCodes(rtSockets[k]) :
       /\ rtSockets' = [rtSockets EXCEPT ![k] = "closed"]
       /\ rtTimers' = IF code # 1000 /\ reconnectAttempts < maxReconnectAttempts
                      THEN rtTimers + 1 ELSE rtTimers
  /\ UNCHANGED <<websocket, reconnectAttempts, rtHeartbeats, heartbeatInterval,
                 rtDisconnected, lsVars, asVars, vrpVars, optVars, decVars, fmVars>>

\* a reconnect timer fires (lines 313-317): this.reconnectAttempts++ and
\* this.connect()
ReconnectTimer ==
  /\ rtTimers > 0
  /\ Len(rtSockets) < MaxSockets
  /\ rtTimers' = rtTimers - 1
  /\ reconnectAttempts' = reconnectAttempts + 1
  /\ ConnectBody
  /\ UNCHANGED <<rtDisconnected, lsVars, asVars, vrpVars, optVars, decVars, fmVars>>

NextTracker ==
  \/ connect
  \/ disconnect
  \/ handleWebSocketOpen
  \/ handleWebSocketClose
  \/ ReconnectTimer

SpecTracker == InitTracker /\ [][NextTracker]_vars

-----------------------------------------------------------------------------
(* Properties of the tracker's connection *)

\* C29 as stated: from disconnect() until the client calls connect() again
\* the tracker creates no WebSocket.
C29_NoSocketAfterDisconnect ==
  [][ (rtDisconnected /\ rtDisconnected') => Len(rtSockets') = Len(rtSockets) ]_vars

\* C30 as stated: at most one heartbeat interval timer is running, and none
\* from disconnect() until the client calls connect() again.
C30_OneHeartbeat ==
  /\ Cardinality(rtHeartbeats) <= 1
  /\ rtDisconnected => rtHeartbeats = {}

====
